---- MODULE Spec2Model ----
(***************************************************************************)
(* cspjs: the `task` macro (src/task.js), the state machine it drives and  *)
(* the Channel library (src/channel.js).                                   *)
(*                                                                         *)
(* Part I   the base channel: put / take / backlog and the nextTick queue. *)
(* Part II  the task macro: a task body is compiled into numbered steps    *)
(*          (step_state, count_states), the steps are run by               *)
(*          state_machine_fn, and the steps call into the StateMachine     *)
(*          runtime (callback, phi, pushErrorStep, ...).                   *)
(***************************************************************************)
EXTENDS Integers, Sequences, FiniteSets, TLC

(***************************************************************************)
(* Common values                                                           *)
(***************************************************************************)

\* JavaScript null / undefined, as an error or a result value.
NULL == "null"

\* The element of a one-element set.  Only({ f(x) : x \in { e } }) is f(e)
\* with e evaluated once, before f.
Only(S) == CHOOSE y \in S : TRUE

\* An omitted callback argument (undefined).
NoCallback == [who |-> "none", k |-> 0]

\* Bounds of the channel model.
MaxPuts == 3
MaxTakes == 3

\* Bounds of the task model: catch / finally frames at the head of a task
\* body, the largest loop count given as input, the iterations of a for loop,
\* and the number of tries a retrying handler allows.
MaxFrames == 2
MaxIter == 2
ForLimit == 3
MaxTries == 2

\* Values put on a channel.
Values == {10, 20}
FillValues == {42, 43}

VARIABLES
    ch,         \* the channel: [_queue, _pending, filled]
    ticks,      \* channel world: thunks handed to nextTick, oldest first
    puts,       \* history: the values put, in call order
    takes,      \* history: number of take calls that consume a value
    delivered   \* history: callbacks run so far, [cb, err, value], in run order

chanVars == <<ch, ticks, puts, takes, delivered>>

VARIABLES
    phase,      \* "idle" before the task function is called, then "called"
    code,       \* the compiled steps of the task
    sm,         \* the StateMachine object of the instance
    vars,       \* the task's state variables
    arr,        \* the array `arr` the task body pushes to
    arguments,  \* `arguments` of the latest state_machine_fn call
    nextTicks,  \* task world: thunks handed to nextTick, oldest first
    conts,      \* thenTo continuations held by pending operations
    finals,     \* calls of the task's trailing callback: their arguments
    escaped,    \* exceptions that propagated out of state_machine_fn
    stepsRun,   \* number of steps of the body executed so far
    hist        \* history: registrations, frame runs, throws, returns

taskVars == <<phase, code, sm, vars, arr, arguments, nextTicks, conts, finals,
              escaped, stepsRun, hist>>

allVars == <<chanVars, taskVars>>

(***************************************************************************)
(* Part I. Channel                                                         *)
(***************************************************************************)

\* function Channel(): two empty arrays.  `filled` stands for the instance's
\* own take / put / fill, which only fill installs: << >> while the instance
\* uses Channel.prototype's, << value >> once fill(value) has replaced them.
Channel == [_queue |-> <<>>, _pending |-> <<>>, filled |-> <<>>]

\* new CBV(callback, value)
CBV(callback, value) == [_callback |-> callback, _value |-> value]

\* sendValueS(value, callback): callback && callback(null, value)
\* Result: the calls made, each marked as made within the call (via "call").
sendValueS(value, callback) ==
    IF callback # NoCallback
    THEN << [cb |-> callback, err |-> NULL, value |-> value, via |-> "call"] >>
    ELSE << >>

\* sendValue(value, callback): callback && nextTick(function () { callback(null, value); })
\* Result: the calls made, each marked as handed to nextTick (via "nextTick").
sendValue(value, callback) ==
    IF callback # NoCallback
    THEN << [cb |-> callback, err |-> NULL, value |-> value, via |-> "nextTick"] >>
    ELSE << >>

\* A take that pairs the reader with the newest queued value instead of the oldest.
ChannelTake_lifo(c, callback) ==
    IF Len(c._queue) > 0
    THEN LET n == Len(c._queue)
             q == c._queue[n]
         IN [ch   |-> [c EXCEPT !._queue = SubSeq(@, 1, n - 1)],
             sent |-> sendValue(q._value, q._callback) \o sendValue(q._value, callback)]
    ELSE [ch   |-> IF callback # NoCallback
                   THEN [c EXCEPT !._pending = Append(@, callback)]
                   ELSE c,
          sent |-> << >>]

\* Channel.prototype.take
ChannelTake(c, callback) ==
    IF Len(c._queue) > 0
    THEN LET q == Head(c._queue)
         IN [ch   |-> [c EXCEPT !._queue = Tail(@)],
             sent |-> sendValue(q._value, q._callback) \o sendValue(q._value, callback)]
    ELSE [ch   |-> IF callback # NoCallback
                   THEN [c EXCEPT !._pending = Append(@, callback)]
                   ELSE c,
          sent |-> << >>]

\* A put that always enqueues, without looking for a waiting reader.
ChannelPut_nopair(c, value, callback) ==
    [ch   |-> [c EXCEPT !._queue = Append(@, CBV(callback, value))],
     sent |-> << >>]

\* A put that tells its own callback at once when it has to queue the value.
ChannelPut_eager(c, value, callback) ==
    IF Len(c._pending) > 0
    THEN LET p == Head(c._pending)
         IN [ch   |-> [c EXCEPT !._pending = Tail(@)],
             sent |-> sendValue(value, callback) \o sendValue(value, p)]
    ELSE [ch   |-> [c EXCEPT !._queue = Append(@, CBV(callback, value))],
          sent |-> sendValue(value, callback)]

\* Channel.prototype.put
ChannelPut(c, value, callback) ==
    IF Len(c._pending) > 0
    THEN LET p == Head(c._pending)
         IN [ch   |-> [c EXCEPT !._pending = Tail(@)],
             sent |-> sendValue(value, callback) \o sendValue(value, p)]
    ELSE [ch   |-> [c EXCEPT !._queue = Append(@, CBV(callback, value))],
          sent |-> << >>]

\* A backlog that counts the queued values only, not the readers that wait.
backlog_queued(c) == Len(c._queue)

\* Channel.prototype.backlog
backlog(c) == Len(c._queue) - Len(c._pending)

\* A fill that also hands the value to the readers waiting on the channel.
ChannelFill_release(c, value) ==
    IF c.filled # << >> THEN [ch |-> c, sent |-> << >>]
    ELSE [ch   |-> [c EXCEPT !.filled = << value >>, !._pending = << >>],
          sent |-> [k \in 1..Len(c._pending) |-> sendValue(value, c._pending[k])[1]]]

\* A fill that does not replace itself by noop: a later fill installs take and
\* put again, with the later value.
ChannelFill_refill(c, value) ==
    [ch |-> [c EXCEPT !.filled = << value >>], sent |-> << >>]

\* Channel.prototype.fill: installs the instance's own take, put and fill
\* (fill becomes noop); _queue and _pending are not touched.
ChannelFill(c, value) ==
    IF c.filled # << >> THEN [ch |-> c, sent |-> << >>]
    ELSE [ch |-> [c EXCEPT !.filled = << value >>], sent |-> << >>]

\* The take that fill(value) installs: sendValue(value, callback).
FilledTake(c, callback) == [ch |-> c, sent |-> sendValue(c.filled[1], callback)]

\* The put that fill(value) installs: sendValue(value, callback), the value
\* put is ignored.
FilledPut(c, ignoredValue, callback) ==
    [ch |-> c, sent |-> sendValue(c.filled[1], callback)]

\* ch.take(callback) and ch.put(value, callback): the instance's own method if
\* fill installed one, else the prototype's.
take(c, callback) ==
    IF c.filled # << >> THEN FilledTake(c, callback) ELSE ChannelTake(c, callback)

put(c, value, callback) ==
    IF c.filled # << >> THEN FilledPut(c, value, callback)
    ELSE ChannelPut(c, value, callback)

\* What a call made: the thunks it handed to nextTick, and the callbacks it
\* called before it returned.
Deferred(sent) == SelectSeq(sent, LAMBDA t : t.via = "nextTick")
Called(sent) == SelectSeq(sent, LAMBDA t : t.via = "call")

\* Callback identities: the k-th put's callback and the k-th consuming take's.
PutCb(k) == [who |-> "put", k |-> k]
TakeCb(k) == [who |-> "take", k |-> k]

\* A new channel, beside a task instance that is never started.
InitChan ==
    /\ ch = Channel
    /\ ticks = << >>
    /\ puts = << >>
    /\ takes = 0
    /\ delivered = << >>
    /\ phase = "idle"
    /\ code = << >>
    /\ sm = [id |-> 0]
    /\ vars = [c |-> TRUE]
    /\ arr = << >>
    /\ arguments = << >>
    /\ nextTicks = << >>
    /\ conts = {}
    /\ finals = << >>
    /\ escaped = << >>
    /\ stepsRun = 0
    /\ hist = << >>

\* ch.put(v, cb) or ch.put(v)
Put ==
    /\ Len(puts) < MaxPuts
    /\ \E v \in Values, withCb \in BOOLEAN :
         LET r == put(ch, v, IF withCb THEN PutCb(Len(puts) + 1) ELSE NoCallback)
         IN /\ ch' = r.ch
            /\ ticks' = ticks \o Deferred(r.sent)
            /\ delivered' = delivered \o Called(r.sent)
            /\ puts' = Append(puts, v)
    /\ UNCHANGED takes
    /\ UNCHANGED taskVars

\* ch.take(cb)
Take ==
    /\ takes < MaxTakes
    /\ LET r == take(ch, TakeCb(takes + 1))
       IN /\ ch' = r.ch
          /\ ticks' = ticks \o Deferred(r.sent)
          /\ delivered' = delivered \o Called(r.sent)
    /\ takes' = takes + 1
    /\ UNCHANGED puts
    /\ UNCHANGED taskVars

\* ch.take() without a callback: consumes a queued value, if any, for nobody.
TakeNoCallback ==
    /\ takes < MaxTakes
    /\ LET r == take(ch, NoCallback)
       IN /\ ch' = r.ch
          /\ ticks' = ticks \o Deferred(r.sent)
          /\ delivered' = delivered \o Called(r.sent)
          /\ takes' = IF r.ch # ch THEN takes + 1 ELSE takes
    /\ UNCHANGED puts
    /\ UNCHANGED taskVars

\* The host runs the oldest nextTick thunk: callback(err, value).
ChanTick ==
    /\ Len(ticks) > 0
    /\ delivered' = Append(delivered, Head(ticks))
    /\ ticks' = Tail(ticks)
    /\ UNCHANGED <<ch, puts, takes>>
    /\ UNCHANGED taskVars

NextChan == Put \/ Take \/ TakeNoCallback \/ ChanTick

\* ch.fill(v)
Fill ==
    /\ \E v \in FillValues :
         LET r == ChannelFill(ch, v)
         IN /\ ch' = r.ch
            /\ ticks' = ticks \o Deferred(r.sent)
            /\ delivered' = delivered \o Called(r.sent)
    /\ UNCHANGED <<puts, takes>>
    /\ UNCHANGED taskVars

\* A channel that may be filled at any moment.
NextFill == Put \/ Take \/ TakeNoCallback \/ ChanTick \/ Fill

(***************************************************************************)
(* Part II. The task macro                                                 *)
(*                                                                         *)
(* A task body is a sequence of statements.  A statement is a record       *)
(*   [k, x, tag, body, body2]                                              *)
(* k    the statement form the macro matches (if, while, catch, ...)       *)
(* x    its JavaScript text: a condition, an expression, a statement       *)
(* tag  the literal number occurring in x, if any                          *)
(* body, body2  the nested blocks                                          *)
(***************************************************************************)

Stmt(k, x, tag, body, body2) ==
    [k |-> k, x |-> x, tag |-> tag, body |-> body, body2 |-> body2]

Sync(x, tag)        == Stmt("sync", x, tag, << >>, << >>)
Throw(x)            == Stmt("throw", x, 0, << >>, << >>)
Return(x)           == Stmt("return", x, 0, << >>, << >>)
Retry               == Stmt("retry", "", 0, << >>, << >>)
AsyncGet            == Stmt("asyncget", "v <- op()", 0, << >>, << >>)
If(x, tag, then)    == Stmt("if", x, tag, then, << >>)
IfElse(x, then, else) == Stmt("ifelse", x, 0, then, else)
While(x, tag, body) == Stmt("while", x, tag, body, << >>)
For(n, body)        == Stmt("for", "i = 1; i <= tag; ++i", n, body, << >>)
Catch(handler)      == Stmt("catch", "e", 0, handler, << >>)
CatchClass(handler) == Stmt("catch", "Error e", 0, handler, << >>)
Finally(cleanup)    == Stmt("finally", "", 0, cleanup, << >>)
FinallyExpr(x, tag) == Stmt("finally_expr", x, tag, << >>, << >>)
Switch(x, case1, case2) == Stmt("switch", x, 0, case1, case2)
Phi                 == Stmt("phi", "", 0, << >>, << >>)

\* for (init; cond; next) { body }  is rewritten to  init; while (cond) { body next; }
\* (the "Rewrite for loops using while" rules of count_states and step_state).
RewriteFor(s) ==
    << Sync("i = 1", 0), While("i <= tag", s.tag, s.body \o << Sync("++i", 0) >>) >>

\* macro count_states / count_states_line / sumup_counts: the number of step
\* ids a block of statements occupies.
RECURSIVE count_states(_)
count_states(stmts) ==
    IF stmts = << >> THEN 0
    ELSE LET s == Head(stmts)
             rest == Tail(stmts)
         IN CASE s.k = "ifelse"  -> 3 + count_states(s.body \o s.body2 \o rest)
              [] s.k = "if"      -> 2 + count_states(s.body \o rest)
              [] s.k = "for"     -> count_states(RewriteFor(s) \o rest)
              [] s.k = "while"   -> 2 + count_states(s.body \o rest)
              [] s.k = "finally" -> 2 + count_states(s.body \o rest)
              [] s.k = "finally_expr" -> 1 + count_states(rest)
              [] s.k = "catch"   -> 2 + count_states(s.body \o rest)
              [] s.k = "switch"  ->
                    1 + count_states(s.body \o <<Phi>> \o s.body2 \o <<Phi>> \o rest)
              [] s.k = "asyncget" -> 2 + count_states(rest)
              [] OTHER           -> 1 + count_states(rest)

\* One compiled step: the code the macro emits under `case id:`.
\*   op   which rule of step_state / step_state_line emitted it
\*   x, tag  the statement's text
\*   t1, t2  the step ids computed at compile time
\*   pre  code emitted under the same case label before it (catch: `e = err`)
Instr(op, x, tag, t1, t2) ==
    [op |-> op, x |-> x, tag |-> tag, t1 |-> t1, t2 |-> t2, pre |-> "none"]

WithPre(steps, pre) == << [steps[1] EXCEPT !.pre = pre] >> \o Tail(steps)

\* macro step_state and the step_state_line_* macros: the steps of a block of
\* statements, the first of which gets step id `id`.
RECURSIVE step_state(_, _)
step_state(stmts, id) ==
    IF stmts = << >>
    THEN << Instr("end", "", 0, 0, 0) >>
    ELSE
    LET s == Head(stmts)
        rest == Tail(stmts)
        id2 == id + 1
    IN CASE s.k = "ifelse" ->
              LET jumpThen == 1 + count_states(s.body)
                  jumpElse == 1 + count_states(s.body2)
              IN << Instr("ifelse", s.x, s.tag, id2 + jumpThen + jumpElse, id2 + jumpThen) >>
                 \o step_state(s.body \o <<Phi>> \o s.body2 \o <<Phi>> \o rest, id2)
         [] s.k = "if" ->
              LET jump == 1 + count_states(s.body)
              IN << Instr("if", s.x, s.tag, id2 + jump, id2 + jump) >>
                 \o step_state(s.body \o <<Phi>> \o rest, id2)
         [] s.k = "for" -> step_state(RewriteFor(s) \o rest, id)
         [] s.k = "while" ->
              LET jumpBody == count_states(s.body)
              IN << Instr("while", s.x, s.tag, id, id2 + 1 + jumpBody) >>
                 \o step_state(s.body \o <<Phi>> \o rest, id2)
         [] s.k = "switch" ->
              << Instr("switch", s.x, id, count_states(s.body), count_states(s.body2)) >>
                 \o step_state(s.body \o <<Phi>> \o s.body2 \o <<Phi>> \o rest, id2)
         [] s.k = "finally_expr" ->
              << Instr("finally_expr", s.x, s.tag, 0, 0) >> \o step_state(rest, id2)
         [] s.k = "finally" ->
              LET jumpHandler == count_states(s.body)
              IN << Instr("finally", "", 0, id2, id2 + 1 + jumpHandler) >>
                 \o step_state(s.body \o <<Phi>> \o rest, id2)
         [] s.k = "catch" ->
              LET jumpHandler == count_states(s.body)
              IN << Instr("catch", s.x, 0, id2, id2 + 1 + jumpHandler) >>
                 \o WithPre(step_state(s.body \o <<Phi>> \o rest, id2), s.x)
         [] s.k = "asyncget" ->
              << Instr("asyncget", s.x, 0, id2, 0), Instr("bind", s.x, 0, 0, 0) >>
                 \o step_state(rest, id + 2)
         [] OTHER ->
              << Instr(s.k, s.x, s.tag, 0, 0) >> \o step_state(rest, id2)

\* The body of `switch (state_machine.state.id) { case 1: ... }` for a task body.
Compile(body) == step_state(body, 1)

(***************************************************************************)
(* The StateMachine runtime (cspjs/src/state_machine), which the compiled  *)
(* steps call.  A "world" w is the state of one task instance and of the   *)
(* host around it:                                                         *)
(*   w.code   the compiled steps of the task                               *)
(*   w.sm     the StateMachine object: the fields of state_machine.state   *)
(*   w.vars   the task's state variables; w.arr the array `arr` they share *)
(*   w.args   the `arguments` of the running state_machine_fn call         *)
(*   w.ticks  thunks handed to nextTick, oldest first                      *)
(*   w.conts  continuations made by thenTo and held by pending operations  *)
(*   w.finals the calls of the task's trailing callback, with arguments    *)
(*   w.escaped exceptions that left state_machine_fn                       *)
(*   w.hist   history of registrations, frame runs, throws and returns     *)
(***************************************************************************)

\* The task's state variables before the body assigns them.
NoVars == [c |-> TRUE, n |-> 0, i |-> 0, tries |-> 0, e |-> NULL, v |-> NULL]

\* Frames of state.unwinding.  f: "error" | "cleanup" | "action" | "phi" | "mark"
\* A cleanup frame holds the state variables captured when it was registered;
\* a mark holds the ones to put back when the cleanup block has run.
Frame(f, step, retryStep, serial, tag, strict) ==
    [f |-> f, step |-> step, retryStep |-> retryStep, serial |-> serial,
     tag |-> tag, strict |-> strict, restoreState |-> NoVars]

NoFrame == Frame("none", 0, 0, 0, 0, FALSE)

\* A captureStateVars that captures no values.
captureStateVars_blank(w) == NoVars

\* macro declare_varset: state_machine.captureStateVars / restoreStateVars
captureStateVars(w) == w.vars

\* A restoreStateVars that leaves the variables as they are.
restoreStateVars_noop(w, state) == w

restoreStateVars(w, state) == [w EXCEPT !.vars = state]

\* new State()
NewState ==
    [id |-> 0, args |-> <<NULL, NULL>>, err |-> NULL, isUnwinding |-> FALSE,
     unwinding |-> << >>, currentErrorStep |-> NoFrame, isFinished |-> FALSE]

Event(ev, serial, scope, vals) ==
    [ev |-> ev, serial |-> serial, scope |-> scope, vals |-> vals]

Log(w, e) == [w EXCEPT !.hist = Append(@, e)]

\* Registrations made so far; the next frame gets the next serial number.
NextSerial(w) == Cardinality({i \in 1..Len(w.hist) : w.hist[i].ev = "reg"}) + 1

Push(w, frame) == [w EXCEPT !.sm.unwinding = Append(@, frame)]

\* The registered (catch / finally) frames of a stack, oldest first.
Registered(stack) ==
    SelectSeq(stack, LAMBDA f : f.f \in {"error", "cleanup", "action"})

\* state_machine.goTo(id): the step runs on a later turn.
goTo(w, id) == [w EXCEPT !.sm.id = id, !.ticks = Append(@, "boundStep")]

\* state_machine.start()
start(w) == goTo(w, 1)

\* state_machine.callback(err, values...): unwinding starts on a later turn.
callback(w, args) ==
    [w EXCEPT !.sm.args = args, !.sm.err = args[1],
              !.ticks = Append(@, "boundUnwind")]

\* Continue at `step`; unwinding mode ends unless a handler or cleanup body
\* is still running.
windTo(w, step) ==
    goTo([w EXCEPT !.sm.isUnwinding =
                      \E i \in 1..Len(w.sm.unwinding) : w.sm.unwinding[i].f = "mark"],
         step)

\* The trailing callback of the task is called with state.args.
finalCallback(w) ==
    [w EXCEPT !.finals = Append(@, w.sm.args), !.sm.isFinished = TRUE]

\* Pop frames, newest first.  strict: the unwinding was started by callback()
\* and passes through block boundaries; otherwise it was started by phi() and
\* stops at the boundary of the block that ends.
RECURSIVE unwind(_, _)
Unwound(w, w1, where, strict) ==
    CASE where.f = "phi" ->
           IF strict THEN unwind(w1, strict) ELSE windTo(w1, where.step)
      [] where.f = "mark" ->
           IF strict THEN unwind(w1, strict)
           ELSE unwind(IF where.tag = 1
                       THEN restoreStateVars(w1, where.restoreState)
                       ELSE w1,
                       where.strict)
      [] where.f = "error" ->
           IF w.sm.err # NULL
           THEN goTo(Push([w1 EXCEPT !.sm.isUnwinding = TRUE,
                                     !.sm.currentErrorStep = where],
                          Frame("mark", 0, 0, 0, 0, strict)),
                     where.step)
           ELSE unwind(w1, strict)
      [] where.f = "cleanup" ->
           goTo(Push(Log(restoreStateVars([w1 EXCEPT !.sm.isUnwinding = TRUE],
                                          where.restoreState),
                         Event("run", where.serial, << >>, << >>)),
                     [Frame("mark", 0, 0, 0, 1, strict)
                        EXCEPT !.restoreState = captureStateVars(w1)]),
                where.step)
      [] where.f = "action" ->
           unwind(Log([w1 EXCEPT !.arr = Append(@, where.tag)],
                      Event("run", where.serial, << >>, << >>)),
                  strict)
      [] OTHER -> w1

unwind(w0, strict) ==
    Only({ IF w.sm.unwinding = << >>
           THEN IF strict THEN finalCallback(w) ELSE w
           ELSE LET n == Len(w.sm.unwinding)
                IN Unwound(w, [w EXCEPT !.sm.unwinding = SubSeq(@, 1, n - 1)],
                           w.sm.unwinding[n], strict)
           : w \in { w0 } })

\* state_machine.phi(): the end of a block.
phi(w) == unwind(w, FALSE)

\* state_machine.pushPhi(id)
pushPhi(w, id) == Push(w, Frame("phi", id, 0, 0, 0, FALSE))

\* state_machine.pushErrorStep(id, retryID)
pushErrorStep(w, id, retryID) ==
    LET n == NextSerial(w)
    IN goTo(Log(Push(w, Frame("error", id, retryID, n, 0, FALSE)),
                Event("reg", n, << >>, << >>)),
            retryID)

\* state_machine.pushCleanupStep(id, afterID)
pushCleanupStep(w, id, afterID) ==
    LET n == NextSerial(w)
    IN goTo(Log(Push(w, [Frame("cleanup", id, 0, n, 0, FALSE)
                           EXCEPT !.restoreState = captureStateVars(w)]),
                Event("reg", n, << >>, << >>)),
            afterID)

\* state_machine.pushCleanupAction(context, fn, args): arr.push(arg), later.
pushCleanupAction(w, arg) ==
    LET n == NextSerial(w)
    IN Log(Push(w, Frame("action", 0, 0, n, arg, FALSE)),
           Event("reg", n, << >>, << >>))

\* The stack below the newest mark: what was there when the handler started.
RECURSIVE BelowMark(_)
BelowMark(stack) ==
    IF stack = << >> THEN << >>
    ELSE LET n == Len(stack)
         IN IF stack[n].f = "mark" THEN SubSeq(stack, 1, n - 1)
            ELSE BelowMark(SubSeq(stack, 1, n - 1))

\* state_machine.retry(): only meaningful inside a handler.
CanRetry(w) == w.sm.currentErrorStep.f = "error"

retry(w) ==
    LET h == w.sm.currentErrorStep
    IN windTo(Log([w EXCEPT !.sm.unwinding = Append(BelowMark(@), h),
                            !.sm.err = NULL,
                            !.sm.args = <<NULL, NULL>>,
                            !.sm.currentErrorStep = NoFrame],
                  Event("retry", h.serial, << >>, << >>)),
              h.retryStep)

\* state_machine.thenTo(id): a continuation for one external operation.
thenTo(w, id) == [w EXCEPT !.conts = @ \cup {id}]

\* jumpTable(id, labelSets, stepCounts).jumpToCase(state_machine, value): the
\* case bodies follow the switch step, each closed by a phi step.
RECURSIVE CaseStart(_, _, _)
CaseStart(id, stepCounts, k) ==
    IF k = 1 THEN id + 1
    ELSE CaseStart(id, stepCounts, k - 1) + stepCounts[k - 1] + 1

jumpToCase(w, id, labelSets, stepCounts, value) ==
    LET hits == {k \in 1..Len(labelSets) : value \in labelSets[k]}
        after == CaseStart(id, stepCounts, Len(stepCounts) + 1)
    IN IF Cardinality(hits) = 1
       THEN LET k == CHOOSE k \in hits : TRUE
            IN [w |-> goTo(pushPhi(w, after), CaseStart(id, stepCounts, k)),
                exc |-> NULL]
       ELSE [w |-> w, exc |-> "UnhandledCase"]

(***************************************************************************)
(* The code of the steps, as emitted by the step_state_line macros.        *)
(* A step yields [w, brk, exc]: the world after it, whether it ends with   *)
(* `break`, and the exception it threw (NULL if none).                     *)
(***************************************************************************)

R(w, brk, exc) == [w |-> w, brk |-> brk, exc |-> exc]

\* History of what the body did: `throw e` or an exception (error e), and
\* `return v` or the end of the body (value v), each with the catch / finally
\* frames registered and not yet unwound at that moment.
Thrown(w, e) ==
    Log(w, Event("throw", 0, Registered(w.sm.unwinding), <<e>>))

Returned(w, v) ==
    Log(w, Event("return", 0, Registered(w.sm.unwinding), <<NULL, v>>))

\* e instanceof Error
IsErrorInstance(e) ==
    e \in {"Error", "AssertionError", "RetryError", "UnhandledCase"}

\* The conditions used in task bodies.
EvalCond(w, ins) ==
    CASE ins.x = "c"        -> [v |-> w.vars.c, w |-> w]
      [] ins.x = "true"     -> [v |-> TRUE, w |-> w]
      [] ins.x = "false"    -> [v |-> FALSE, w |-> w]
      [] ins.x = "n-- > 0"  -> [v |-> w.vars.n > 0, w |-> [w EXCEPT !.vars.n = @ - 1]]
      [] ins.x = "i <= tag" -> [v |-> w.vars.i <= ins.tag, w |-> w]
      [] ins.x = "tries < tag" -> [v |-> w.vars.tries < ins.tag, w |-> w]
      [] OTHER              -> [v |-> FALSE, w |-> w]

\* The values of the expressions used in throw, return and switch.
EvalExpr(w, x) ==
    CASE x = "'boom'"      -> "boom"
      [] x = "'inner'"     -> "inner"
      [] x = "new Error()" -> "Error"
      [] x = "null"        -> NULL
      [] x = "e"           -> w.vars.e
      [] x = "true"        -> "true"
      [] x = "'done'"      -> "done"
      [] x = "v"           -> w.vars.v
      [] OTHER             -> NULL

\* step_state_line_if_else
StepIfElse(w, ins) ==
    Only({ IF ~c.v THEN R(goTo(c.w, ins.t2), TRUE, NULL) ELSE R(c.w, FALSE, NULL)
           : c \in { EvalCond(pushPhi(w, ins.t1), ins) } })

\* step_state_line_if
StepIf(w, ins) ==
    LET c == EvalCond(w, ins)
    IN IF c.v THEN R(pushPhi(c.w, ins.t1), FALSE, NULL)
       ELSE R(goTo(c.w, ins.t1), TRUE, NULL)

\* step_state_line_while
StepWhile(w, ins) ==
    LET c == EvalCond(w, ins)
    IN IF c.v THEN R(pushPhi(c.w, ins.t1), FALSE, NULL)
       ELSE R(goTo(c.w, ins.t2), TRUE, NULL)

\* The label sets of `case 1: { body } case 2: { body2 }`.
CaseLabelSets == << {1}, {2} >>

\* The value a switch dispatches on.
SwitchValue(w, ins) ==
    CASE ins.x = "1" -> 1 [] ins.x = "2" -> 2 [] ins.x = "n" -> w.vars.n
      [] ins.x = "i" -> w.vars.i
      [] OTHER -> 3

\* A switch step without the `break` after jumpToCase: the step runs on into
\* the first case body.
StepSwitch_nobreak(w, ins) ==
    LET r == jumpToCase(w, ins.tag, CaseLabelSets, << ins.t1, ins.t2 >>,
                        SwitchValue(w, ins))
    IN R(r.w, FALSE, r.exc)

\* step_state_line_switch: case 1: { body } case 2: { body2 }
StepSwitch(w, ins) ==
    LET r == jumpToCase(w, ins.tag, CaseLabelSets, << ins.t1, ins.t2 >>,
                        SwitchValue(w, ins))
    IN R(r.w, TRUE, r.exc)

\* A finally statement registered at the bottom of the stack, not at its top.
StepFinallyExpr_unshift(w, ins) ==
    LET w1 == pushCleanupAction(w, IF ins.x = "arr.push(i)" THEN w.vars.i ELSE ins.tag)
        n == Len(w1.sm.unwinding)
    IN R([w1 EXCEPT !.sm.unwinding = << @[n] >> \o SubSeq(@, 1, n - 1)], FALSE, NULL)

\* step_state_line_finally_expr: the arguments are evaluated now.
StepFinallyExpr(w, ins) ==
    R(pushCleanupAction(w, IF ins.x = "arr.push(i)" THEN w.vars.i ELSE ins.tag),
      FALSE, NULL)

\* A finally block registered at the bottom of the stack, not at its top.
StepFinallyBlock_unshift(w, ins) ==
    LET w1 == pushCleanupStep(w, ins.t1, ins.t2)
        n == Len(w1.sm.unwinding)
    IN R([w1 EXCEPT !.sm.unwinding = << @[n] >> \o SubSeq(@, 1, n - 1)], TRUE, NULL)

\* step_state_line_finally_block
StepFinallyBlock(w, ins) == R(pushCleanupStep(w, ins.t1, ins.t2), TRUE, NULL)

\* step_state_line_catch: the step that installs the handler.
StepCatch(w, ins) == R(pushErrorStep(w, ins.t1, ins.t2), TRUE, NULL)

\* step_state_line_catch: the code at the head of the handler, `$e = err` and
\* the class test.  Yields brk = TRUE when the handler is skipped.
\* History: the handler's step was reached ("run"), and the handler's body
\* was entered ("body") with the value of its error variable, at the step and
\* with the contents of arr recorded.
HandlerReached(w) ==
    Log(w, Event("run", w.sm.currentErrorStep.serial, << >>, << >>))

HandlerEntered(w) ==
    Log(w, Event("body", w.sm.currentErrorStep.serial, << >>,
                 <<w.vars.e, w.sm.currentErrorStep.step, w.arr>>))

\* A handler head that keeps the value its error variable already has.
CatchPrologue_keepE(w, ins) ==
    LET w1 == HandlerReached([w EXCEPT !.vars.e = IF @ # NULL THEN @ ELSE w.sm.err])
    IN CASE ins.pre = "e" -> R(HandlerEntered(w1), FALSE, NULL)
         [] ins.pre = "Error e" ->
              IF ~(w1.vars.e # NULL /\ IsErrorInstance(w1.vars.e))
              THEN R(phi(w1), TRUE, NULL)
              ELSE R(HandlerEntered(w1), FALSE, NULL)
         [] OTHER -> R(w, FALSE, NULL)

\* A handler head without the class test.
CatchPrologue_nofilter(w, ins) ==
    LET w1 == HandlerReached([w EXCEPT !.vars.e = w.sm.err])
    IN IF ins.pre \in {"e", "Error e"} THEN R(HandlerEntered(w1), FALSE, NULL)
       ELSE R(w, FALSE, NULL)

CatchPrologue(w, ins) ==
    LET w1 == HandlerReached([w EXCEPT !.vars.e = w.sm.err])
    IN CASE ins.pre = "e" -> R(HandlerEntered(w1), FALSE, NULL)
         [] ins.pre = "Error e" ->
              IF ~(w1.vars.e # NULL /\ IsErrorInstance(w1.vars.e))
              THEN R(phi(w1), TRUE, NULL)
              ELSE R(HandlerEntered(w1), FALSE, NULL)
         [] OTHER -> R(w, FALSE, NULL)

\* step_state_line: x <- op();
StepAsyncGet(w, ins) == R(thenTo(w, ins.t1), TRUE, NULL)

\* step_state_line: the step the continuation resumes at, `x = arguments[1]`.
StepBind(w, ins) == R([w EXCEPT !.vars.v = w.args[2]], FALSE, NULL)

\* A return step that lacks its `break`.
StepReturn_nobreak(w, ins) ==
    LET v == EvalExpr(w, ins.x)
    IN R(callback(Returned(w, v), <<NULL, v>>), FALSE, NULL)

\* A return step that calls callback(null) and drops the value.
StepReturn_novalue(w, ins) ==
    LET v == EvalExpr(w, ins.x)
    IN R(callback(Returned(w, v), <<NULL, NULL>>), TRUE, NULL)

\* step_state_line: return x;
StepReturn(w, ins) ==
    LET v == EvalExpr(w, ins.x)
    IN R(callback(Returned(w, v), <<NULL, v>>), TRUE, NULL)

\* A throw step that passes the error on as a result value.
StepThrow_asValue(w, ins) ==
    LET tmp1 == EvalExpr(w, ins.x)
    IN IF tmp1 # NULL THEN R(callback(Thrown(w, tmp1), <<NULL, tmp1>>), TRUE, NULL)
       ELSE R(w, FALSE, NULL)

\* step_state_line: throw e;
StepThrow(w, ins) ==
    LET tmp1 == EvalExpr(w, ins.x)
    IN IF tmp1 # NULL THEN R(callback(Thrown(w, tmp1), <<tmp1>>), TRUE, NULL)
       ELSE R(w, FALSE, NULL)

\* A retry step that lacks its `break`.
StepRetry_nobreak(w, ins) ==
    IF CanRetry(w) THEN R(retry(w), FALSE, NULL) ELSE R(w, TRUE, "RetryError")

\* step_state_line: retry;
StepRetry(w, ins) ==
    IF CanRetry(w) THEN R(retry(w), TRUE, NULL) ELSE R(w, TRUE, "RetryError")

\* The end of a block that only jumps to the step after the block: the frames
\* registered inside the block stay on the stack.
StepPhi_jump(w, ins) ==
    LET stack == w.sm.unwinding
        phis == {i \in 1..Len(stack) : stack[i].f = "phi"}
    IN IF phis = {} THEN R(phi(w), TRUE, NULL)
       ELSE LET k == CHOOSE i \in phis : \A j \in phis : j <= i
            IN R(goTo([w EXCEPT !.sm.unwinding =
                                   SubSeq(stack, 1, k - 1)
                                   \o SubSeq(stack, k + 1, Len(stack))],
                      stack[k].step),
                 TRUE, NULL)

\* step_state_line: phi
StepPhi(w, ins) == R(phi(w), TRUE, NULL)

\* step_state_line: any other statement runs synchronously and may throw.
StepSync(w, ins) ==
    CASE ins.x = "arr.push(tag)" -> R([w EXCEPT !.arr = Append(@, ins.tag)], FALSE, NULL)
      [] ins.x = "arr.push(i)"   -> R([w EXCEPT !.arr = Append(@, w.vars.i)], FALSE, NULL)
      [] ins.x = "arr.push(10 + tries)" ->
            R([w EXCEPT !.arr = Append(@, 10 + w.vars.tries)], FALSE, NULL)
      [] ins.x = "i = 1"         -> R([w EXCEPT !.vars.i = 1], FALSE, NULL)
      [] ins.x = "++i"           -> R([w EXCEPT !.vars.i = @ + 1], FALSE, NULL)
      [] ins.x = "++tries"       -> R([w EXCEPT !.vars.tries = @ + 1], FALSE, NULL)
      [] ins.x = "e = 'poof'"    -> R([w EXCEPT !.vars.e = "poof"], FALSE, NULL)
      [] ins.x = "assert(c)"     ->
            IF w.vars.c THEN R(w, FALSE, NULL) ELSE R(w, FALSE, "AssertionError")
      [] OTHER                   -> R(w, FALSE, NULL)

\* A last step that only breaks.
StepEnd_nocallback(w, ins) == R(w, TRUE, NULL)

\* step_state, empty rest: the body ran off its last step.
StepEnd(w, ins) == R(callback(Returned(w, "true"), <<NULL, "true">>), TRUE, NULL)

\* The code under `case id:`.
ExecStep(w, ins) ==
    CASE ins.op = "ifelse"       -> StepIfElse(w, ins)
      [] ins.op = "if"           -> StepIf(w, ins)
      [] ins.op = "while"        -> StepWhile(w, ins)
      [] ins.op = "switch"       -> StepSwitch(w, ins)
      [] ins.op = "finally_expr" -> StepFinallyExpr(w, ins)
      [] ins.op = "finally"      -> StepFinallyBlock(w, ins)
      [] ins.op = "catch"        -> StepCatch(w, ins)
      [] ins.op = "asyncget"     -> StepAsyncGet(w, ins)
      [] ins.op = "bind"         -> StepBind(w, ins)
      [] ins.op = "return"       -> StepReturn(w, ins)
      [] ins.op = "throw"        -> StepThrow(w, ins)
      [] ins.op = "retry"        -> StepRetry(w, ins)
      [] ins.op = "phi"          -> StepPhi(w, ins)
      [] ins.op = "end"          -> StepEnd(w, ins)
      [] OTHER                   -> StepSync(w, ins)

\* switch (state_machine.state.id) { case 1: ... }: run from `case id:` until a
\* break or an exception; a step without break falls through to the next case.
RECURSIVE RunSwitch(_, _)
RunSwitch(w, id) ==
    IF id < 1 \/ id > Len(w.code) THEN R(w, TRUE, NULL)
    ELSE
    Only({ IF p.brk THEN R(p.w, TRUE, NULL)
           ELSE Only({ IF r.exc # NULL \/ r.brk THEN r ELSE RunSwitch(r.w, id + 1)
                       : r \in { ExecStep([p.w EXCEPT !.stepsRun = @ + 1],
                                          w.code[id]) } })
           : p \in { CatchPrologue(w, w.code[id]) } })

\* state_machine_fn without its try / catch: an exception leaves the function.
state_machine_fn_notry(w, args) ==
    IF args[1] # NULL /\ ~w.sm.isUnwinding
    THEN callback(Thrown(w, args[1]), <<args[1]>>)
    ELSE Only({ IF r.exc # NULL THEN [r.w EXCEPT !.escaped = Append(@, r.exc)] ELSE r.w
                : r \in { RunSwitch([w EXCEPT !.args = args], w.sm.id) } })

\* function state_machine_fn(err)
state_machine_fn(w, args) ==
    IF args[1] # NULL /\ ~w.sm.isUnwinding
    THEN callback(Thrown(w, args[1]), <<args[1]>>)
    ELSE Only({ IF r.exc # NULL THEN callback(Thrown(r.w, r.exc), <<r.exc>>) ELSE r.w
                : r \in { RunSwitch([w EXCEPT !.args = args], w.sm.id) } })

\* StateMachine.prototype.step, the thunk goTo hands to nextTick.
step(w) == state_machine_fn(w, w.sm.args)

\* The continuation made by thenTo(id), called by the operation with args.
continuation(w, id, args) ==
    state_machine_fn([w EXCEPT !.sm.id = id, !.conts = @ \ {id}], args)

(***************************************************************************)
(* Task bodies                                                             *)
(***************************************************************************)

\* The catch / finally frames a body is built from; frame number k pushes k
\* to arr when it runs.
FrameKinds ==
    {"catchFall", "catchPoof", "catchReturn", "catchClassReturn", "catchRetry",
     "finallyBlock", "finallyExpr"}

MkFrame(kind, k) ==
    CASE kind = "catchFall"   -> Catch(<< Sync("arr.push(tag)", k) >>)
      [] kind = "catchPoof"   ->
            Catch(<< Sync("arr.push(tag)", k), Sync("e = 'poof'", 0) >>)
      [] kind = "catchReturn" -> Catch(<< Sync("arr.push(tag)", k), Return("true") >>)
      [] kind = "catchClassReturn" ->
            CatchClass(<< Sync("arr.push(tag)", k), Return("'done'") >>)
      [] kind = "catchRetry"  ->
            Catch(<< Sync("++tries", 0), If("tries < tag", MaxTries, << Retry >>),
                     Sync("arr.push(tag)", k), Return("true") >>)
      [] kind = "finallyBlock" -> Finally(<< Sync("arr.push(tag)", k) >>)
      [] OTHER                -> FinallyExpr("arr.push(tag)", k)

\* The sequences of at most n frames, numbered 1, 2, ... in order.
RECURSIVE Prefixes(_)
Prefixes(n) ==
    IF n = 0 THEN { << >> }
    ELSE LET shorter == Prefixes(n - 1)
         IN shorter \cup
            { Append(p, MkFrame(kind, n)) :
                p \in {q \in shorter : Len(q) = n - 1}, kind \in FrameKinds }

\* The ways a body ends.
Tails ==
    { << Throw("'boom'") >>, << Throw("new Error()") >>, << Throw("null") >>,
      << Return("'done'") >>, << >>, << Sync("assert(c)", 0) >>,
      << AsyncGet, Return("v") >>, << AsyncGet, Sync("assert(c)", 0) >>,
      << Sync("arr.push(10 + tries)", 0), Throw("'boom'") >> }

\* Blocks that declare frame number 9 inside an if, else, while, for or
\* switch-case block; 7 and 8 mark the statements of the block.
InnerKinds == {"catchFall", "catchReturn", "finallyBlock", "finallyExpr"}

Regions ==
    UNION { { << If("c", 0, << MkFrame(kind, 9), Sync("arr.push(tag)", 7) >>) >>,
              << If("c", 0, << MkFrame(kind, 9), Throw("'inner'") >>) >>,
              << IfElse("c", << Sync("arr.push(tag)", 8) >>,
                             << MkFrame(kind, 9), Sync("arr.push(tag)", 7) >>) >>,
              << While("n-- > 0", 0, << MkFrame(kind, 9), Sync("arr.push(tag)", 7) >>) >>,
              << For(ForLimit, << MkFrame(kind, 9), Sync("arr.push(i)", 0) >>) >>,
              << Switch("n", << MkFrame(kind, 9), Sync("arr.push(tag)", 7) >>,
                             << MkFrame(kind, 9), Sync("arr.push(tag)", 8) >>) >> }
            : kind \in InnerKinds }

\* A for loop whose body registers one cleanup that pushes the loop variable.
LoopCleanups ==
    { << For(ForLimit, << FinallyExpr("arr.push(i)", 0) >>) >>,
      << For(ForLimit, << Finally(<< Sync("arr.push(i)", 0) >>) >>) >> }

\* A for loop over i whose body dispatches on i and then pushes i; case k
\* pushes 4 + k.  The loop stays within the case labels, or goes one past.
SwitchLoops ==
    { << For(limit, << Switch("i", << Sync("arr.push(tag)", 5) >>,
                                   << Sync("arr.push(tag)", 6) >>),
                       Sync("arr.push(i)", 0) >>) >>
      : limit \in { Len(CaseLabelSets), Len(CaseLabelSets) + 1 } }

\* Three frames, a returning handler among cleanups: two cleanups before the
\* handler, or one before it and one after it.
CleanupKinds == {"finallyBlock", "finallyExpr"}

Stacked ==
    { << MkFrame(a, 1), MkFrame(b, 2), MkFrame(h, 3) >> :
        a \in CleanupKinds, b \in CleanupKinds, h \in {"catchReturn", "catchClassReturn"} }
    \cup { << MkFrame(a, 1), MkFrame("catchReturn", 2), MkFrame(b, 3) >> :
             a \in CleanupKinds, b \in CleanupKinds }

\* The task bodies of the model.
Programs ==
    { p \o t : p \in Prefixes(MaxFrames), t \in Tails }
    \cup { p \o r \o t : p \in Prefixes(1), r \in Regions, t \in Tails }
    \cup { p \o t : p \in Stacked, t \in Tails }
    \cup { p \o r \o t : p \in Prefixes(1), r \in LoopCleanups, t \in Tails }
    \cup { p \o r \o t : p \in Prefixes(1), r \in SwitchLoops, t \in Tails }

UsesC(steps) == \E i \in 1..Len(steps) : steps[i].x \in {"c", "assert(c)"}
UsesN(steps) == \E i \in 1..Len(steps) : steps[i].x \in {"n", "n-- > 0"}

(***************************************************************************)
(* The task instance as a state machine                                    *)
(***************************************************************************)

World ==
    [code |-> code, sm |-> sm, vars |-> vars, arr |-> arr, args |-> arguments,
     ticks |-> nextTicks, conts |-> conts, finals |-> finals,
     escaped |-> escaped, stepsRun |-> stepsRun, hist |-> hist]

Becomes(w) ==
    /\ code' = w.code
    /\ sm' = w.sm
    /\ vars' = w.vars
    /\ arr' = w.arr
    /\ arguments' = w.args
    /\ nextTicks' = w.ticks
    /\ conts' = w.conts
    /\ finals' = w.finals
    /\ escaped' = w.escaped
    /\ stepsRun' = w.stepsRun
    /\ hist' = w.hist

\* A task function about to be called, beside a channel that is never used.
InitTask ==
    /\ ch = Channel
    /\ ticks = << >>
    /\ puts = << >>
    /\ takes = 0
    /\ delivered = << >>
    /\ phase = "idle"
    /\ \E body \in Programs : code = Compile(body)
    /\ sm = NewState
    /\ \E c \in BOOLEAN, n \in 0..MaxIter :
         /\ (~UsesC(code) => c)
         /\ (~UsesN(code) => n = 0)
         /\ vars = [NoVars EXCEPT !.c = c, !.n = n]
    /\ arr = << >>
    /\ arguments = << >>
    /\ nextTicks = << >>
    /\ conts = {}
    /\ finals = << >>
    /\ escaped = << >>
    /\ stepsRun = 0
    /\ hist = << >>

\* A task function that runs its first step within the call.
setup_state_machine_sync(w) ==
    state_machine_fn([w EXCEPT !.sm = [NewState EXCEPT !.id = 1]], <<NULL, NULL>>)

\* macro setup_state_machine: the body of the compiled task function.
setup_state_machine(w) == start([w EXCEPT !.sm = NewState])

\* The task function is called; it returns to its caller.
Invoke ==
    /\ phase = "idle"
    /\ phase' = "called"
    /\ \E w \in { setup_state_machine(World) } : Becomes(w)
    /\ UNCHANGED chanVars

\* The host runs the oldest nextTick thunk, a step of the body.
RunStep ==
    /\ Len(nextTicks) > 0
    /\ Head(nextTicks) = "boundStep"
    /\ \E w \in { step([World EXCEPT !.ticks = Tail(@)]) } : Becomes(w)
    /\ UNCHANGED <<phase, chanVars>>

\* The host runs the oldest nextTick thunk, the unwinding callback() asked for.
RunUnwind ==
    /\ Len(nextTicks) > 0
    /\ Head(nextTicks) = "boundUnwind"
    /\ \E w \in { unwind([World EXCEPT !.ticks = Tail(@)], TRUE) } : Becomes(w)
    /\ UNCHANGED <<phase, chanVars>>

\* An external operation completes and calls its continuation with
\* (null, value) or with (error).
OperationCompletes ==
    /\ \E id \in conts, result \in { <<NULL, "data">>, <<"ioerror", NULL>> } :
         \E w \in { continuation(World, id, result) } : Becomes(w)
    /\ UNCHANGED <<phase, chanVars>>

NextTask == Invoke \/ RunStep \/ RunUnwind \/ OperationCompletes

SpecTask == InitTask /\ [][NextTask]_allVars

\* The host eventually runs every thunk handed to nextTick, and every external
\* operation eventually calls its continuation.
FairTask ==
    /\ SpecTask
    /\ WF_allVars(RunStep)
    /\ WF_allVars(RunUnwind)
    /\ WF_allVars(OperationCompletes)

SpecChan == InitChan /\ [][NextChan]_allVars

SpecFill == InitChan /\ [][NextFill]_allVars

(***************************************************************************)
(* Properties of the channel                                                *)
(***************************************************************************)

\* C2: the k-th value put is the one the k-th take receives (and the one the
\* k-th put's own callback is told about), every callback runs at most once,
\* and takers are served in the order they called take: values leave a
\* channel in the order they entered it, whether the values waited for the
\* readers or the readers for the values.
C2_ChannelFifo ==
    /\ \A i \in 1..Len(delivered) :
         /\ delivered[i].err = NULL
         /\ delivered[i].cb.k \in 1..Len(puts)
         /\ delivered[i].value = puts[delivered[i].cb.k]
    /\ \A i, j \in 1..Len(delivered) :
         (i < j /\ delivered[i].cb.who = delivered[j].cb.who)
         => delivered[i].cb.k < delivered[j].cb.k

\* Two takes have received two different values.
C2_Witness ==
    \E i, j \in 1..Len(delivered) :
      /\ i < j
      /\ delivered[i].cb = TakeCb(1)
      /\ delivered[j].cb = TakeCb(2)
      /\ delivered[i].value # delivered[j].value

\* C3: the queue of values and the queue of waiting readers are never both
\* non-empty, so a positive backlog means no reader waits and a negative one
\* means no value is queued.
C3_QueuesNeverBothNonEmpty ==
    /\ ~(Len(ch._queue) > 0 /\ Len(ch._pending) > 0)
    /\ (backlog(ch) > 0 => Len(ch._pending) = 0 /\ Len(ch._queue) = backlog(ch))
    /\ (backlog(ch) < 0 => Len(ch._queue) = 0 /\ Len(ch._pending) = -backlog(ch))

\* Readers wait on a channel that values have already passed through.
C3_Witness == backlog(ch) < 0 /\ Len(puts) > 0 /\ Len(delivered) > 0

(***************************************************************************)
(* Properties of a task instance                                            *)
(***************************************************************************)

\* Nothing is scheduled and no operation is pending: the instance is at rest.
Quiescent == phase = "called" /\ nextTicks = << >> /\ conts = {}

\* The throws and returns of the body so far, as positions of hist.
Outcomes == {i \in 1..Len(hist) : hist[i].ev \in {"throw", "return"}}

\* The events that follow outcome i up to the next throw, return or retry.
SegmentEnd(i) ==
    LET later == {j \in (i + 1)..Len(hist) : hist[j].ev \in {"throw", "return", "retry"}}
    IN IF later = {} THEN Len(hist)
       ELSE (CHOOSE j \in later : \A k \in later : j <= k) - 1

IsLast(i) == SegmentEnd(i) = Len(hist)

RunsAfter(i) == {j \in (i + 1)..SegmentEnd(i) : hist[j].ev = "run"}

BodiesAfter(i) == {j \in (i + 1)..SegmentEnd(i) : hist[j].ev = "body"}

Serials(scope, kinds) ==
    {scope[k].serial : k \in {k \in 1..Len(scope) : scope[k].f \in kinds}}

\* The number a frame pushes to arr when it runs.
FrameTag(f) == IF f.f = "action" THEN f.tag ELSE code[f.step].tag

\* The frames of `serials` have run after outcome i newest first, each at
\* most once, none skipped.
RanNewestFirst(i, serials) ==
    LET runs == RunsAfter(i)
    IN /\ \A j \in runs : hist[j].serial \in serials
       /\ \A j, k \in runs : j < k => hist[j].serial > hist[k].serial
       /\ \A j \in runs : \A n \in serials :
            n > hist[j].serial => \E k \in runs : k < j /\ hist[k].serial = n

RanAll(i, serials) == {hist[j].serial : j \in RunsAfter(i)} = serials

\* C1: the task's trailing callback is never called more than once.
C1_CallbackAtMostOnce == Len(finals) <= 1

\* An instance whose handler retried has called the trailing callback.
C1_Witness == Len(finals) = 1 /\ \E i \in 1..Len(hist) : hist[i].ev = "retry"

\* The exceptions a step raises while it runs (not by a throw statement).
SyncExceptions == {"AssertionError", "RetryError", "UnhandledCase"}

\* The first handler body entered after outcome i, if any, is that of the
\* newest handler in scope and it receives the error of outcome i.
NearestHandlerFirst(i) ==
    LET hs == Serials(hist[i].scope, {"error"})
        bodies == BodiesAfter(i)
    IN \A j \in bodies :
         (\A k \in bodies : j <= k)
         => /\ hs # {}
            /\ \A n \in hs : n <= hist[j].serial
            /\ hist[j].serial \in hs
            /\ hist[j].vals[1] = hist[i].vals[1]

\* C4: an exception raised while a step runs, in a step started by start() or
\* in one resumed by an operation's continuation, never leaves
\* state_machine_fn.  It is treated as callback(error): the newest handler in
\* scope is the first to get it, and with no handler in scope the trailing
\* callback gets it, once the instance is at rest.
C4_ExceptionNeverEscapes ==
    /\ escaped = << >>
    /\ \A i \in Outcomes :
         (hist[i].ev = "throw" /\ hist[i].vals[1] \in SyncExceptions)
         => LET hs == Serials(hist[i].scope, {"error"})
            IN /\ NearestHandlerFirst(i)
               /\ (hs # {} /\ (~IsLast(i) \/ Quiescent)) => BodiesAfter(i) # {}
               /\ (hs = {}) => /\ BodiesAfter(i) = {}
                               /\ IsLast(i)
                               /\ (finals # << >> => finals = << hist[i].vals >>)
                               /\ (Quiescent => finals # << >>)

\* A step resumed by a continuation raised an exception inside a handler's
\* scope and the instance has finished.
C4_Witness ==
    /\ finals # << >>
    /\ vars.v = "data"
    /\ \E i \in Outcomes :
         /\ hist[i].vals[1] = "AssertionError"
         /\ Serials(hist[i].scope, {"error"}) # {}

\* C5: the call of a task function runs no step of the body: when it returns
\* nothing has been pushed, nothing has been delivered, and step 1 is a thunk
\* waiting for the scheduler; a step runs only when the scheduler runs a thunk
\* or an operation calls its continuation.
C5_StartsOnLaterTurn ==
    [][ /\ (phase = "idle" /\ phase' = "called")
           => /\ stepsRun' = 0
              /\ arr' = << >>
              /\ finals' = << >>
              /\ sm'.id = 1
              /\ nextTicks' = << "boundStep" >>
        /\ (stepsRun' > stepsRun)
           => /\ phase = "called"
              /\ (nextTicks # << >> \/ conts # {}) ]_allVars

\* The task function has returned and no step has run yet.
C5_Witness ==
    phase = "called" /\ stepsRun = 0 /\ nextTicks = << "boundStep" >> /\ Len(code) > 1

\* C6: once the task function has been called, the trailing callback is
\* eventually called, given that the scheduler runs every thunk and every
\* operation calls its continuation (all loops and retries of the bodies are
\* bounded).
C6_EventuallyCallsBack == (phase = "called") ~> (Len(finals) = 1)

\* A body that waited for an operation and then ran off its last step.
C6_Witness ==
    /\ Len(finals) = 1
    /\ vars.v = "data"
    /\ hist[Len(hist)].ev = "return"
    /\ code[Len(code) - 1].op = "sync"

\* C7: the trailing callback gets what the last throw or return of the body
\* gave: the error itself and nothing else after a throw that no handler
\* ended by return or retry, and null followed by the value after a return
\* or the end of the body.  So its first argument is non-null exactly after
\* a failure.
C7_FirstArgumentIffFailed ==
    finals # << >>
    => /\ Outcomes # {}
       /\ LET last == CHOOSE i \in Outcomes : \A j \in Outcomes : j <= i
          IN /\ finals[1] = hist[last].vals
             /\ (finals[1][1] # NULL) <=> (hist[last].ev = "throw")
             /\ (hist[last].ev = "throw") => Len(finals[1]) = 1
             /\ (hist[last].ev = "return") => Len(finals[1]) = 2

\* A handler with a class filter was in scope and let 'boom' pass to the
\* trailing callback.
C7_Witness ==
    /\ finals = << << "boom" >> >>
    /\ \E i \in Outcomes :
         /\ Serials(hist[i].scope, {"error"}) # {}
         /\ RunsAfter(i) # {}
         /\ BodiesAfter(i) = {}

\* C8: after a throw, the catch and finally frames in scope are run newest
\* first, each at most once and none skipped, until a handler ends the
\* unwinding (return or retry); when the error gets to the trailing callback
\* every frame in scope has run, and an instance at rest whose last event was
\* the throw has called the trailing callback.
C8_UnwindNewestFirstOnError ==
    \A i \in Outcomes :
      hist[i].ev = "throw"
      => LET all == Serials(hist[i].scope, {"error", "cleanup", "action"})
         IN /\ RanNewestFirst(i, all)
            /\ (IsLast(i) /\ finals # << >>) => RanAll(i, all)
            /\ (IsLast(i) /\ Quiescent) => finals # << >>

\* Two frames, a handler and a cleanup, let an error pass to the callback.
C8_Witness ==
    /\ Len(finals) = 1
    /\ finals[1][1] # NULL
    /\ \E i \in Outcomes :
         /\ Serials(hist[i].scope, {"error"}) # {}
         /\ Serials(hist[i].scope, {"cleanup", "action"}) # {}
         /\ Cardinality(RunsAfter(i)) = 2
         /\ arr = << 2, 1 >>

\* The cleanup frames of a scope, oldest first, and the numbers they push.
Cleanups(scope) == SelectSeq(scope, LAMBDA f : f.f \in {"cleanup", "action"})

PushedNewestFirst(frames) ==
    [k \in 1..Len(frames) |-> FrameTag(frames[Len(frames) + 1 - k])]

\* C9: after a return (or the end of the body) only the cleanup frames in
\* scope run, newest first, each at most once and none skipped; no handler
\* body is entered; the trailing callback is called only when all of them
\* have run and pushed their numbers, it gets null and the returned value,
\* and an instance at rest has called it.
C9_CleanupsRunOnReturn ==
    \A i \in Outcomes :
      hist[i].ev = "return"
      => LET frames == Cleanups(hist[i].scope)
             serials == Serials(hist[i].scope, {"cleanup", "action"})
             n == Len(frames)
         IN /\ IsLast(i)
            /\ RanNewestFirst(i, serials)
            /\ BodiesAfter(i) = {}
            /\ finals # << >>
               => /\ RanAll(i, serials)
                  /\ Len(arr) >= n
                  /\ SubSeq(arr, Len(arr) - n + 1, Len(arr)) = PushedNewestFirst(frames)
                  /\ finals = << hist[i].vals >>
            /\ Quiescent => finals # << >>

\* A body with a handler and two cleanup frames returned 'done'.
C9_Witness ==
    /\ finals = << << NULL, "done" >> >>
    /\ \E i \in Outcomes :
         /\ Len(Cleanups(hist[i].scope)) = 2
         /\ Serials(hist[i].scope, {"error"}) = {}
    /\ arr = << 2, 1 >>

\* C10: frame number 9 is declared inside an if, else, while, for or case
\* block, where the only error thrown is 'inner'.  Its handler body is
\* entered for no other error; an error thrown once the block has ended finds
\* no handler of the block in scope, however often the block was entered, and
\* reaches the newest handler declared outside the block, if there is one.
C10_HandlerScopeEndsWithBlock ==
    /\ \A i \in 1..Len(hist) :
         (hist[i].ev = "body" /\ code[hist[i].vals[2]].tag = 9)
         => hist[i].vals[1] = "inner"
    /\ \A i \in Outcomes :
         (hist[i].ev = "throw" /\ hist[i].vals[1] # "inner")
         => LET hs == Serials(hist[i].scope, {"error"})
            IN /\ \A k \in 1..Len(hist[i].scope) :
                    hist[i].scope[k].f = "error"
                    => code[hist[i].scope[k].step].tag # 9
               /\ (hs # {} /\ (~IsLast(i) \/ Quiescent))
                  => \E j \in RunsAfter(i) :
                       /\ hist[j].serial \in hs
                       /\ \A n \in hs : n <= hist[j].serial

\* A while block that declares a handler was entered twice; the error thrown
\* after the loop entered the body of the handler declared before the loop.
C10_Witness ==
    /\ \E k \in 1..Len(code) : code[k].op = "while" /\ code[k + 1].op = "catch"
    /\ Cardinality({j \in 1..Len(hist) : hist[j].ev = "reg"}) >= 3
    /\ \E i \in 1..Len(hist) :
         /\ hist[i].ev = "body"
         /\ hist[i].serial = 1
         /\ hist[i].vals[1] = "boom"

\* The handlers with a class filter among the frames of a scope.
ClassHandlers(scope) ==
    {k \in 1..Len(scope) : scope[k].f = "error" /\ code[scope[k].step].pre = "Error e"}

\* C11: a handler with a class filter that the thrown error is no instance of
\* does not enter its body, and the handlers further out that are reached get
\* the same error; a handler whose filter accepts the error enters its body
\* with that error, and when it returns no handler further out is reached.
C11_ClassFilter ==
    \A i \in Outcomes :
      hist[i].ev = "throw"
      => \A k \in ClassHandlers(hist[i].scope) :
           LET n == hist[i].scope[k].serial
               err == hist[i].vals[1]
               outer == {m \in Serials(hist[i].scope, {"error"}) : m < n}
               reached == {j \in RunsAfter(i) : hist[j].serial = n}
               entered == {j \in BodiesAfter(i) : hist[j].serial = n}
           IN /\ ~IsErrorInstance(err)
                 => /\ entered = {}
                    /\ \A j \in BodiesAfter(i) : hist[j].vals[1] = err
                    /\ (reached # {} /\ outer # {} /\ (~IsLast(i) \/ Quiescent))
                       => \E j \in RunsAfter(i) :
                            /\ hist[j].serial \in outer
                            /\ \A m \in outer : m <= hist[j].serial
              /\ IsErrorInstance(err)
                 => /\ reached # {} => entered # {}
                    /\ \A j \in entered : hist[j].vals[1] = err
                    /\ (entered # {} /\ ~IsLast(i) /\ hist[SegmentEnd(i) + 1].ev = "return")
                       => \A j \in (i + 1)..Len(hist) :
                            hist[j].ev \in {"run", "body"} => hist[j].serial \notin outer

\* 'boom' passed a handler for Error and entered the body of the handler
\* declared before it.
C11_Witness ==
    \E i \in Outcomes :
      /\ hist[i].vals[1] = "boom"
      /\ ClassHandlers(hist[i].scope) = {2}
      /\ \E j \in BodiesAfter(i) : hist[j].serial = 1 /\ hist[j].vals[1] = "boom"

\* C12: while no handler has returned or retried, every handler body entered
\* after a throw finds the thrown error in its error variable, whatever an
\* inner handler assigned to its own; and when the instance comes to rest
\* without a return or retry, a handler whose body was entered has been
\* followed by the next handler out.
C12_FallThroughRethrows ==
    \A i \in Outcomes :
      hist[i].ev = "throw"
      => \A j \in BodiesAfter(i) :
           LET outer == {m \in Serials(hist[i].scope, {"error"}) : m < hist[j].serial}
           IN /\ hist[j].vals[1] = hist[i].vals[1]
              /\ (outer # {} /\ IsLast(i) /\ Quiescent)
                 => \E k \in RunsAfter(i) :
                      /\ k > j
                      /\ hist[k].serial \in outer
                      /\ \A m \in outer : m <= hist[k].serial

\* A handler assigned 'poof' to its error variable and fell through; the
\* handler declared before it was entered with 'boom'.
C12_Witness ==
    /\ vars.e = "boom"
    /\ \E i \in Outcomes :
         \E j, k \in BodiesAfter(i) :
           /\ j < k
           /\ code[hist[j].vals[2] + 1].x = "e = 'poof'"
           /\ hist[k].vals[1] = "boom"

\* What the region after the handlers pushed, one number per execution.
RegionPushes == SelectSeq(arr, LAMBDA v : v >= 10)

Retries == {i \in 1..Len(hist) : hist[i].ev = "retry"}

\* C13: by the step that retries, the pending error is cleared, the handler that
\* retried is again the newest frame, and the step scheduled next is the one
\* its catch statement names as the start of the region it protects.  The
\* region pushes 10 + tries each time it runs: it has run at most once more
\* than there were retries, in order, and exactly once more when the instance
\* has finished and every error was thrown at the end of the region.
C13_RetryRerunsRegion ==
    [][ /\ (Len(hist') > Len(hist) /\ hist'[Len(hist')].ev = "retry")
           => /\ sm'.err = NULL
              /\ ~sm'.isUnwinding
              /\ nextTicks' = << "boundStep" >>
              /\ sm'.unwinding # << >>
              /\ LET top == sm'.unwinding[Len(sm'.unwinding)]
                 IN /\ top.f = "error"
                    /\ top.serial = hist'[Len(hist')].serial
                    /\ \E k \in 1..Len(code) :
                         /\ code[k].op = "catch"
                         /\ code[k].t1 = top.step
                         /\ code[k].t2 = sm'.id
        /\ \A j \in 1..Len(RegionPushes') : RegionPushes'[j] = 10 + (j - 1)
        /\ Len(RegionPushes') <= Cardinality(Retries') + 1
        /\ ( /\ finals' # << >>
             /\ \E k \in 1..Len(code) : code[k].x = "arr.push(10 + tries)"
             /\ \A i \in Outcomes' : hist'[i].ev = "throw" => hist'[i].vals[1] = "boom" )
           => Len(RegionPushes') = Cardinality(Retries') + 1 ]_allVars

\* A handler retried, the region ran a second time, and the handler returned.
C13_Witness ==
    /\ Cardinality(Retries) >= 1
    /\ Len(RegionPushes) = Cardinality(Retries) + 1
    /\ finals = << << NULL, "true" >> >>

\* The throw whose unwinding the return at position i ended, with the handler
\* whose body returned: the pairs <<throw, body>>.
ReturnedFromHandler(i) ==
    {tb \in Outcomes \X (1..Len(hist)) :
       /\ hist[tb[1]].ev = "throw"
       /\ SegmentEnd(tb[1]) = i - 1
       /\ tb[2] \in BodiesAfter(tb[1])
       /\ \A j \in BodiesAfter(tb[1]) : j <= tb[2]}

\* C14: when a handler body returns, the cleanup frames that were registered
\* before the handler and were in scope at the throw are still registered;
\* they run newest first, no handler is reached any more, and the trailing
\* callback is called only when all of them have pushed their numbers, with
\* null and the returned value.
C14_CleanupsRunAfterHandlerReturn ==
    \A i \in Outcomes :
      hist[i].ev = "return"
      => \A tb \in ReturnedFromHandler(i) :
           LET kinds == {"cleanup", "action"}
               n == hist[tb[2]].serial
               before == {m \in Serials(hist[tb[1]].scope, kinds) : m < n}
               frames == Cleanups(hist[i].scope)
           IN /\ Serials(hist[i].scope, kinds) = before
              /\ RanNewestFirst(i, before)
              /\ \A j \in (i + 1)..Len(hist) : hist[j].ev # "body"
              /\ finals # << >>
                 => /\ RanAll(i, before)
                    /\ finals = << hist[i].vals >>
                    /\ finals[1][1] = NULL
                    /\ Len(arr) >= Len(frames)
                    /\ SubSeq(arr, Len(arr) - Len(frames) + 1, Len(arr))
                         = PushedNewestFirst(frames)
              /\ Quiescent => finals # << >>

\* Two cleanups, then a handler: the handler returned and both cleanups ran,
\* the newer first.
C14_Witness ==
    /\ arr = << 3, 2, 1 >>
    /\ finals = << << NULL, "true" >> >>
    /\ \E i \in Outcomes : \E tb \in ReturnedFromHandler(i) : hist[tb[2]].serial = 3

\* The body has a for loop over i = 1..ForLimit whose body is one cleanup
\* that pushes i: `finally arr.push(i);` or `finally { arr.push(i); }`.
LoopCleanupCode ==
    \E k \in 1..(Len(code) - 1) :
      \/ code[k].op = "finally_expr" /\ code[k].x = "arr.push(i)"
      \/ code[k].op = "finally" /\ code[k + 1].x = "arr.push(i)"

\* 1, 2, ..., n, repeated `times` times.
CountedUp(n, times) == [q \in 1..(n * times) |-> ((q - 1) % n) + 1]

BodyEvents == {j \in 1..Len(hist) : hist[j].ev = "body"}

\* The values the loop's cleanups pushed: the statements after the loop push
\* 10 + tries, which is larger than every value of the loop variable.
IsLoopValue(x) == x <= ForLimit
LoopPushes(a) == SelectSeq(a, IsLoopValue)

\* C15: a cleanup registered in a loop body runs when the iteration's block
\* ends, once per iteration, with the value the loop variable had when it was
\* registered.  So at a throw or return after the loop no cleanup of the loop
\* is registered any more, the handler declared before the loop finds
\* arr = <<1, ..., ForLimit>> when its body is entered (once more for every
\* time it retried the loop), and arr starts with 1, ..., ForLimit when the
\* trailing callback is called.
C15_LoopCleanupPerIteration ==
    LoopCleanupCode
    => /\ \A i \in Outcomes : Len(hist[i].scope) <= 1
       /\ \A j \in BodyEvents :
            LoopPushes(hist[j].vals[3])
              = CountedUp(ForLimit, Cardinality({k \in BodyEvents : k <= j}))
       /\ finals # << >>
          => /\ Len(arr) >= ForLimit
             /\ SubSeq(arr, 1, ForLimit) = CountedUp(ForLimit, 1)

\* The loop registered `finally { arr.push(i); }` ForLimit times, 'boom' was
\* thrown after it, and the handler before the loop returned.
C15_Witness ==
    /\ \E k \in 1..(Len(code) - 1) : code[k].op = "finally" /\ code[k + 1].x = "arr.push(i)"
    /\ \E i \in Outcomes : hist[i].vals = << "boom" >>
    /\ \E j \in BodyEvents : hist[j].vals[3] = CountedUp(ForLimit, 1)
    /\ finals = << << NULL, "true" >> >>
    /\ vars.i = ForLimit + 1

\* The body has a for loop over i = 1..ForLimit whose body is the block
\* `finally { arr.push(i); }`.
LoopBlockCode ==
    \E k \in 1..(Len(code) - 1) : code[k].op = "finally" /\ code[k + 1].x = "arr.push(i)"

\* The registered frames of the loop's cleanup block, oldest first.
LoopFrames ==
    SelectSeq(sm.unwinding,
              LAMBDA f : f.f = "cleanup" /\ code[f.step].x = "arr.push(i)")

\* C16 as stated: after the loop and the throw, the handler finds that the
\* loop's cleanups pushed ForLimit, ..., 2, 1 (arr == [3,2,1]).
C16_Original_ReverseOrder ==
    LoopBlockCode
    => \A j \in BodyEvents :
         LoopPushes(hist[j].vals[3])
           = [q \in 1..(ForLimit * Cardinality({k \in BodyEvents : k <= j}))
                |-> ForLimit - ((q - 1) % ForLimit)]

\* C16, amended: each iteration's cleanup frame is captured with its own value
\* of i and runs when its iteration ends, so at most one frame of the loop is
\* registered at a time, it holds the i of its iteration, the earlier
\* iterations have already pushed 1, ..., i - 1, and the handler reached by the
\* throw after the loop finds the pushes 1, ..., ForLimit (arr == [1,2,3]).
C16_LoopFramesRunInIterationOrder ==
    LoopBlockCode
    => /\ Len(LoopFrames) <= 1
       /\ \A k \in 1..Len(LoopFrames) :
            /\ LoopFrames[k].restoreState.i \in 1..ForLimit
            /\ Len(LoopPushes(arr)) % ForLimit = LoopFrames[k].restoreState.i - 1
       /\ \A j \in BodyEvents :
            SubSeq(LoopPushes(hist[j].vals[3]), 1, ForLimit)
              = [q \in 1..ForLimit |-> q]

\* The loop of `finally { arr.push(i); }` ran, 'boom' was thrown after it and
\* the handler before the loop was entered with arr = <<1, ..., ForLimit>>.
C16_Witness ==
    /\ LoopBlockCode
    /\ LoopFrames = << >>
    /\ \E j \in BodyEvents :
         /\ hist[j].vals[1] = "boom"
         /\ hist[j].vals[3] = [q \in 1..ForLimit |-> q]
    /\ Quiescent

\* The body has a for loop over i that dispatches on i.
SwitchLoopCode == \E k \in 1..Len(code) : code[k].op = "switch" /\ code[k].x = "i"

\* The number of iterations the loop asks for, and how many of them find a
\* case label.
LoopLimit == code[CHOOSE k \in 1..Len(code) : code[k].op = "while"].tag
Matched == IF LoopLimit < Len(CaseLabelSets) THEN LoopLimit ELSE Len(CaseLabelSets)

\* arr after m iterations, each of which ran its own case and then the
\* statement after the switch: 5, 1, 6, 2, ...
CaseTrace(m) == [q \in 1..(2 * m) |-> IF q % 2 = 1 THEN 4 + ((q + 1) \div 2) ELSE q \div 2]

\* C17: switch dispatch.  On every iteration whose value has a case label
\* exactly that case body runs, once, no other case body runs, and the
\* statement after the switch runs next.  On a value without a case label no
\* case body and no statement after the switch runs: the step raises an
\* unhandled-case Error, with the handler declared before the loop in scope,
\* and the statements after the loop run only if a handler makes them (retry).
C17_SwitchDispatch ==
    SwitchLoopCode
    => /\ Outcomes = {}
          => \E m \in 0..Matched :
               /\ vars.i \in {m, m + 1}
               /\ \/ arr = CaseTrace(m)
                  \/ /\ m < Matched
                     /\ vars.i = m + 1
                     /\ arr = CaseTrace(m) \o << 4 + m + 1 >>
       /\ Outcomes # {}
          => /\ Len(arr) >= 2 * Matched
             /\ SubSeq(arr, 1, 2 * Matched) = CaseTrace(Matched)
       /\ LoopLimit <= Len(CaseLabelSets)
          => \A i \in Outcomes : hist[i].vals # << "UnhandledCase" >>
       /\ LoopLimit > Len(CaseLabelSets)
          => /\ \A i \in Outcomes :
                  \/ /\ hist[i].ev = "throw"
                     /\ hist[i].vals = << "UnhandledCase" >>
                     /\ \A k \in 1..Len(hist[i].scope) : hist[i].scope[k].serial = 1
                     /\ code[1].op \in {"catch", "finally", "finally_expr"}
                        => Len(hist[i].scope) = 1
                  \/ i > 1 /\ hist[i - 1].ev = "body"
             /\ \A q \in 1..Len(arr) : arr[q] < 10
             /\ Retries = {} /\ Len(arr) > 2 * Matched
                => arr[2 * Matched + 1] \notin {5, 6}
             /\ \A k \in 1..Len(finals) :
                  \/ finals[k] = << "UnhandledCase" >>
                  \/ \E j \in BodyEvents : hist[j].vals[1] = "UnhandledCase"

\* The loop went one past the case labels: two iterations ran their cases, the
\* third raised, and `catch (Error e) { return 'done'; }` caught the Error.
C17_Witness ==
    /\ SwitchLoopCode
    /\ LoopLimit > Len(CaseLabelSets)
    /\ code[1].x = "Error e"
    /\ \E i \in Outcomes : hist[i].vals = << "UnhandledCase" >>
    /\ arr = CaseTrace(Len(CaseLabelSets)) \o << 1 >>
    /\ finals = << << NULL, "done" >> >>

(***************************************************************************)
(* Properties of put, take and fill                                        *)
(***************************************************************************)

\* callback(null, value), handed to nextTick.
Signal(cb, value) == [cb |-> cb, err |-> NULL, value |-> value, via |-> "nextTick"]

\* One signal for cb, or none when the call had no callback.
SignalIf(cb, value) == IF cb # NoCallback THEN << Signal(cb, value) >> ELSE << >>

\* C18: on a base channel a put that finds no waiting reader queues its value
\* and signals nobody; its continuation is signalled by the take that consumes
\* the value, so only once the value has left the queue and a take for it was
\* made, at most once, and with the value put.  A take that finds a queued
\* value signals the put's continuation and then its own with that value; a
\* put that finds a waiting reader signals its own continuation and then the
\* reader's with the value put.
C18_PutSignalledOnConsumption ==
    [][ /\ \A k \in 1..Len(puts') :
             LET all == delivered' \o ticks'
                 sig == {i \in 1..Len(all) : all[i].cb = PutCb(k)}
             IN /\ Cardinality(sig) <= 1
                /\ \A i \in sig :
                     /\ all[i].value = puts'[k]
                     /\ all[i].err = NULL
                     /\ takes' >= k
                     /\ \A q \in 1..Len(ch'._queue) : ch'._queue[q]._callback # PutCb(k)
        /\ (puts' # puts /\ ch._pending = << >>)
           => /\ ticks' = ticks
              /\ delivered' = delivered
              /\ Len(ch'._queue) = Len(ch._queue) + 1
              /\ ch'._queue[Len(ch'._queue)]._value = puts'[Len(puts')]
              /\ ch'._queue[Len(ch'._queue)]._callback \in {NoCallback, PutCb(Len(puts'))}
        /\ (puts' # puts /\ ch._pending # << >>)
           => LET v == puts'[Len(puts')]
                  reader == Signal(Head(ch._pending), v)
              IN /\ ch'._pending = Tail(ch._pending)
                 /\ \/ ticks' = ticks \o << reader >>
                    \/ ticks' = ticks \o << Signal(PutCb(Len(puts')), v), reader >>
        /\ (takes' # takes /\ ch._queue # << >>)
           => LET q == Head(ch._queue)
                  putter == SignalIf(q._callback, q._value)
              IN /\ ch'._queue = Tail(ch._queue)
                 /\ \/ ticks' = ticks \o putter
                    \/ ticks' = ticks \o putter \o << Signal(TakeCb(takes'), q._value) >>
      ]_allVars

\* A put with a continuation found no reader and waited in the queue; the
\* second take consumed its value, and both continuations have been called
\* with that value, the put's first.
C18_Witness ==
    \E i, j \in 1..Len(delivered) :
      /\ i < j
      /\ delivered[i].cb = PutCb(2)
      /\ delivered[j].cb = TakeCb(2)
      /\ delivered[i].value = puts[2]
      /\ delivered[j].value = puts[2]
      /\ ch._queue # << >>

\* C19: a put or a take calls no continuation before it returns, also when it
\* pairs with a waiting reader or a queued value: the continuations it signals
\* are handed to nextTick, and a continuation is called only by the turn of
\* the host that runs the oldest thunk, which leaves the channel as it is.
C19_NoContinuationWithinCall ==
    [][ /\ (puts' # puts \/ takes' # takes \/ ch' # ch)
           => /\ delivered' = delivered
              /\ \E n \in 0..2 :
                   /\ Len(ticks') = Len(ticks) + n
                   /\ SubSeq(ticks', 1, Len(ticks)) = ticks
              /\ \A i \in 1..Len(ticks') : ticks'[i].via = "nextTick"
        /\ (puts' # puts /\ ch._pending # << >>) => Len(ticks') > Len(ticks)
        /\ (takes' # takes /\ ch._queue # << >>
            /\ Head(ch._queue)._callback # NoCallback) => Len(ticks') > Len(ticks)
        /\ delivered' # delivered
           => /\ ticks # << >>
              /\ delivered' = Append(delivered, Head(ticks))
              /\ ticks' = Tail(ticks)
              /\ ch' = ch /\ puts' = puts /\ takes' = takes
      ]_allVars

\* A put with a continuation paired with a waiting reader: both continuations
\* are in the hands of nextTick and neither has been called.
C19_Witness ==
    /\ Len(puts) = 1
    /\ takes = 1
    /\ delivered = << >>
    /\ Len(ticks) = 2
    /\ ticks[1].cb = PutCb(1)
    /\ ticks[2].cb = TakeCb(1)

\* The signals made so far, called or still in the hands of nextTick.
Signals == delivered \o ticks

\* C20 as stated: once fill(v) was called every taker receives v.  No reader
\* is left waiting on the channel (those that waited when fill was called were
\* signalled, and a later take does not wait), and a taker's signal carries v
\* unless a value put before the fill had served that taker already.
C20_EveryTakerReceivesFill ==
    ch.filled # << >>
    => /\ ch._pending = << >>
       /\ \A i \in 1..Len(Signals) :
            Signals[i].cb.who = "take"
            => \/ Signals[i].value = ch.filled[1]
               \/ /\ Signals[i].cb.k <= Len(puts)
                  /\ Signals[i].value = puts[Signals[i].cb.k]

\* What the code does for the readers that waited when fill was called: fill
\* signals nobody and leaves _queue and _pending as they are, and on a filled
\* channel no call changes them, so such a reader waits for ever.
C20_FillLeavesWaitingReaders ==
    [][ /\ (ch.filled = << >> /\ ch'.filled # << >>)
           => /\ ticks' = ticks /\ delivered' = delivered
              /\ ch'._pending = ch._pending /\ ch'._queue = ch._queue
        /\ ch.filled # << >>
           => /\ ch' = ch
              /\ takes' # takes
                 => ticks' = ticks \o << Signal(TakeCb(takes'), ch.filled[1]) >>
      ]_allVars

\* A reader waits on a filled channel while a take made after the fill has
\* been served with the filled value.
C20_Witness ==
    /\ ch.filled # << >>
    /\ ch._pending = << TakeCb(1) >>
    /\ \E i \in 1..Len(delivered) :
         delivered[i].cb = TakeCb(2) /\ delivered[i].value = ch.filled[1]

\* C21: once a channel is filled with v the value it delivers never changes.
\* No step changes the channel any more: a second fill(w) is ignored, a put
\* stores nothing and leaves backlog() as it was.  A put(w, k) signals k with
\* v, not with w, and a take is signalled with v.
C21_FilledValueIsFixed ==
    [][ ch.filled # << >>
        => /\ ch'.filled = ch.filled
           /\ ch'._queue = ch._queue
           /\ backlog(ch') = backlog(ch)
           /\ puts' # puts
              => /\ \/ ticks' = ticks
                    \/ ticks' = ticks \o << Signal(PutCb(Len(puts')), ch.filled[1]) >>
                 /\ \A i \in 1..Len(ticks') :
                      ticks'[i].cb = PutCb(Len(puts')) => ticks'[i].value # puts'[Len(puts')]
           /\ takes' # takes
              => ticks' = ticks \o << Signal(TakeCb(takes'), ch.filled[1]) >>
      ]_allVars

\* On a filled channel a value was put with a continuation, the continuation
\* was called with the filled value, and a take made after that put received
\* the filled value as well; nothing is queued.
C21_Witness ==
    /\ ch.filled # << >>
    /\ ch._queue = << >>
    /\ \E i, j \in 1..Len(delivered) :
         /\ i < j
         /\ delivered[i].cb = PutCb(1)
         /\ delivered[i].value = ch.filled[1]
         /\ delivered[j].cb = TakeCb(1)
         /\ delivered[j].value = ch.filled[1]

(***************************************************************************)
(* Channels with a buffering policy                                        *)
(*                                                                         *)
(* buffer(N), droppingBuffer(N) and expiringBuffer(N) make an object whose *)
(* prototype is the channel: it sees the channel's _queue and _pending and *)
(* has its own _bufferLength, put and (buffer only) take.  The record of   *)
(* such an object has the channel's fields and its own; the values put are *)
(* 1, 2, 3, ... in the order of the puts.                                  *)
(***************************************************************************)

\* Bound of the buffer lengths.
MaxBufferLength == 2

\* null, given to sendValue or to put as a value: a number that no value put or
\* computed from the values put equals.
NullValue == -1

\* Channel.prototype.buffer / droppingBuffer / expiringBuffer: Object.create(this)
\* with _bufferLength and the methods of the policy.
Derived(c, N, putMethod, takeMethod) ==
    [_queue |-> c._queue, _pending |-> c._pending, filled |-> c.filled,
     _bufferLength |-> N, put |-> putMethod, take |-> takeMethod]

\* A bufferedPut that lets one value too many through: <= for <.
bufferedPut_offByOne(c, value, cb) ==
    IF backlog(c) <= c._bufferLength
    THEN LET r == ChannelPut(c, value, NoCallback)
         IN [ch |-> r.ch, sent |-> r.sent \o sendValue(value, cb)]
    ELSE ChannelPut(c, value, cb)

\* function bufferedPut(value, callback)
bufferedPut(c, value, cb) ==
    IF backlog(c) < c._bufferLength
    THEN LET r == ChannelPut(c, value, NoCallback)
         IN [ch |-> r.ch, sent |-> r.sent \o sendValue(value, cb)]
    ELSE ChannelPut(c, value, cb)

\* function bufferedTake(callback)
bufferedTake(c, cb) ==
    LET r == ChannelTake(c, cb)
    IN IF backlog(r.ch) >= c._bufferLength
       THEN LET q == r.ch._queue[c._bufferLength]
            IN [ch |-> r.ch, sent |-> r.sent \o sendValue(q._value, q._callback)]
       ELSE r

\* A droppingPut that queues the value it should drop.
droppingPut_keep(c, value, cb) ==
    LET r == ChannelPut(c, value, NoCallback)
    IN [ch |-> r.ch, sent |-> r.sent \o sendValue(value, cb)]

\* function droppingPut(value, callback)
droppingPut(c, value, cb) ==
    IF backlog(c) < c._bufferLength
    THEN LET r == ChannelPut(c, value, NoCallback)
         IN [ch |-> r.ch, sent |-> r.sent \o sendValue(value, cb)]
    ELSE [ch |-> c, sent |-> sendValue(NullValue, cb)]

\* expiringPut: while (this.backlog() >= this._bufferLength) { this.take(); }
\* take() without a callback consumes the oldest queued value, if any.  A
\* pass that leaves the channel as it was leaves the test true as well: the
\* loop then never ends and the put does not return (returns = FALSE).
RECURSIVE Expire(_, _)
Expire(c, sent) ==
    IF backlog(c) >= c._bufferLength
    THEN LET r == ChannelTake(c, NoCallback)
         IN IF r.ch = c
            THEN [ch |-> c, sent |-> sent, returns |-> FALSE]
            ELSE Expire(r.ch, sent \o r.sent)
    ELSE [ch |-> c, sent |-> sent, returns |-> TRUE]

\* An expiringPut that makes no room: it queues the value and expires nothing.
expiringPut_noroom(c, value, cb) ==
    LET r == ChannelPut(c, value, NoCallback)
    IN [ch |-> r.ch, sent |-> r.sent \o sendValue(value, cb)]

\* function expiringPut(value, callback)
expiringPut(c, value, cb) ==
    LET e == Expire(c, << >>)
        r == ChannelPut(e.ch, value, NoCallback)
    IN IF e.returns
       THEN [ch |-> r.ch, sent |-> e.sent \o r.sent \o sendValue(value, cb),
             returns |-> TRUE]
       ELSE e

\* ch.put(value, callback) and ch.take(callback) on the derived object.
DerivedPut(c, value, cb) ==
    CASE c.put = "bufferedPut" -> bufferedPut(c, value, cb)
      [] c.put = "droppingPut" -> droppingPut(c, value, cb)
      [] c.put = "expiringPut" -> expiringPut(c, value, cb)

DerivedTake(c, cb) ==
    IF c.take = "bufferedTake" THEN bufferedTake(c, cb)
    ELSE ChannelTake(c, cb)

\* (new Channel()).buffer(N), .droppingBuffer(N) or .expiringBuffer(N)
InitBuf ==
    /\ \E N \in 1..MaxBufferLength :
         \E m \in { << "bufferedPut", "bufferedTake" >>,
                    << "droppingPut", "prototype" >>,
                    << "expiringPut", "prototype" >> } :
           ch = Derived(Channel, N, m[1], m[2])
    /\ ticks = << >>
    /\ puts = << >>
    /\ takes = 0
    /\ delivered = << >>
    /\ phase = "idle"
    /\ code = << >>
    /\ sm = [id |-> 0]
    /\ vars = [c |-> TRUE]
    /\ arr = << >>
    /\ arguments = << >>
    /\ nextTicks = << >>
    /\ conts = {}
    /\ finals = << >>
    /\ escaped = << >>
    /\ stepsRun = 0
    /\ hist = << >>

\* ch.put(k, cb), the k-th put.
BufPut ==
    /\ Len(puts) < MaxPuts
    /\ LET k == Len(puts) + 1
           r == DerivedPut(ch, k, PutCb(k))
       IN /\ ch' = r.ch
          /\ ticks' = ticks \o Deferred(r.sent)
          /\ delivered' = delivered \o Called(r.sent)
          /\ puts' = Append(puts, k)
    /\ UNCHANGED takes
    /\ UNCHANGED taskVars

\* ch.take(callback)
BufTake ==
    /\ takes < MaxTakes
    /\ LET r == DerivedTake(ch, TakeCb(takes + 1))
       IN /\ ch' = r.ch
          /\ ticks' = ticks \o Deferred(r.sent)
          /\ delivered' = delivered \o Called(r.sent)
    /\ takes' = takes + 1
    /\ UNCHANGED puts
    /\ UNCHANGED taskVars

\* The host runs the oldest nextTick thunk of a derived channel.
BufTick ==
    /\ Len(ticks) > 0
    /\ delivered' = Append(delivered, Head(ticks))
    /\ ticks' = Tail(ticks)
    /\ UNCHANGED <<ch, puts, takes>>
    /\ UNCHANGED taskVars

NextBuf == BufPut \/ BufTake \/ BufTick

SpecBuf == InitBuf /\ [][NextBuf]_allVars

(***************************************************************************)
(* Part III. Data-flow variables (the task macro with $dfvars)             *)
(*                                                                         *)
(* A body declares the data-flow variables y and z (`var y, z;`), spawns   *)
(* instances of `task (x, v) { x := v; }` that bind them, and reads them.  *)
(* In this part                                                            *)
(*   code       the steps of the body                                      *)
(*   vars       y, z and the state variable xs                             *)
(*   nextTicks  the thunks handed to nextTick: steps of the body, the      *)
(*              first steps of the spawned instances, the final callback   *)
(*   conts      the step an external operation will continue               *)
(*   sm         [id, waiting]: the step to run and the variables ensure    *)
(*              waits for                                                  *)
(*   hist       one record per statement executed, with the values of the  *)
(*              variables it read                                          *)
(***************************************************************************)

\* A declared data-flow variable nobody has bound yet holds the object dfvar()
\* made, which is no value a binder binds; a bound one holds the value.
Unresolved == [resolved |-> FALSE, value |-> 0]
Resolved(value) == [resolved |-> TRUE, value |-> value]

\* var y, z;
DeclaredDfvars == {"y", "z"}

\* b(y, 5); b(z, 6);
BoundValue == [y |-> 5, z |-> 6]

\* A statement: its form, the identifiers its expression mentions, and for a
\* spawn `b(x, v)` the variable handed over.
DfStmt(k, reads, x) == [k |-> k, reads |-> reads, x |-> x]

Spawn(x)        == DfStmt("expr", {x}, x)
ExprStmt(reads) == DfStmt("expr", reads, "")
VarInit(reads)  == DfStmt("var", reads, "")
DfReturn(reads) == DfStmt("return", reads, "")
DfThrow(reads)  == DfStmt("throw", reads, "")
AwaitCall       == DfStmt("await", {}, "")

\* macro ensure_dfv: the declared data-flow variables among the identifiers of
\* an expression.
ensure_dfv(reads) == reads \cap DeclaredDfvars

\* A step_state_line_with_ensure_dfv whose statements all take the last rule.
step_state_line_with_ensure_dfv_none(stmt) ==
    [op |-> stmt.k, reads |-> stmt.reads, x |-> stmt.x, ensure |-> {}]

\* macro step_state_line_with_ensure_dfv: `var x = e`, `return e`, `throw e`
\* and the arguments of an awaited call get `if (!ensure(id, ...)) break;` in
\* front; the last rule, any other statement, gets nothing.
step_state_line_with_ensure_dfv(stmt) ==
    [op |-> stmt.k, reads |-> stmt.reads, x |-> stmt.x,
     ensure |-> IF stmt.k \in {"var", "return", "throw", "await"}
                THEN ensure_dfv(stmt.reads) ELSE {}]

\* The steps of a body, and the step after its last statement.
DfCompile(body) ==
    [k \in 1..Len(body) |-> step_state_line_with_ensure_dfv(body[k])]
    \o << [op |-> "end", reads |-> {}, x |-> "", ensure |-> {}] >>

\* The values a statement finds in the variables it mentions.
Seen(w, ins) == [v \in ins.reads |-> w.vars[v]]

Executed(w, id, ins) ==
    [w EXCEPT !.hist = Append(@, [step |-> id, op |-> ins.op, seen |-> Seen(w, ins)])]

\* state_machine.ensure(id, operands...): FALSE, and the step is entered again
\* once all are resolved, if some operand is unresolved.
ensure(w, id, operands) ==
    LET open == {v \in operands : w.vars[v] = Unresolved}
    IN IF open = {} THEN [ok |-> TRUE, w |-> w]
       ELSE [ok |-> FALSE, w |-> [w EXCEPT !.sm = [id |-> id, waiting |-> open]]]

\* state_machine.dfbind(target, value): the first binding wins; a step that
\* waits in ensure is entered again when its last operand is resolved.
dfbind(w, x, value) ==
    IF w.vars[x] # Unresolved THEN w
    ELSE LET w1 == [w EXCEPT !.vars[x] = Resolved(value)]
             left == w.sm.waiting \ {x}
         IN IF w.sm.waiting = {} THEN w1
            ELSE IF left = {}
                 THEN [w1 EXCEPT !.sm.waiting = {},
                                 !.ticks = Append(@, [t |-> "step", x |-> "", id |-> w.sm.id])]
                 ELSE [w1 EXCEPT !.sm.waiting = left]

\* The code under `case id:` and the cases it falls through to, until a break.
RECURSIVE DfRunSwitch(_, _)
DfRunSwitch(w, id) ==
    LET ins == w.code[id]
        e == ensure(w, id, ins.ensure)
        w1 == Executed(w, id, ins)
        final(args) == [w1 EXCEPT !.ticks = Append(@, [t |-> "final", x |-> "", id |-> 0]),
                                  !.args = args]
    IN IF ~e.ok THEN e.w
       ELSE CASE ins.op = "end"    -> final(<< NULL, "true" >>)
              [] ins.op = "return" -> final(<< NULL, Seen(w, ins) >>)
              [] ins.op = "throw"  -> final(<< Seen(w, ins) >>)
              [] ins.op = "await"  -> [w1 EXCEPT !.conts = {id + 1}]
              [] ins.op = "var"    ->
                    DfRunSwitch([w1 EXCEPT !.vars.xs = Seen(w, ins)], id + 1)
              [] ins.x # ""        ->
                    DfRunSwitch([w1 EXCEPT !.ticks =
                                     Append(@, [t |-> "bind", x |-> ins.x, id |-> 1])],
                                id + 1)
              [] OTHER             -> DfRunSwitch(w1, id + 1)

\* The bodies: spawn binders for some of the variables, perhaps look at y
\* (`assert.ok(y !== 5)`), perhaps wait for an external operation, then
\* `var xs = [y, z]`, `var xs = [y]`, `return y` or `throw y`, then
\* `assert.deepEqual(xs, ...)`.
DfPrograms ==
    { spawns \o look \o wait \o << use >> \o << ExprStmt({"xs"}) >> :
        spawns \in { << >>, << Spawn("y") >>, << Spawn("z") >>,
                     << Spawn("y"), Spawn("z") >>, << Spawn("z"), Spawn("y") >> },
        look \in { << >>, << ExprStmt({"y"}) >> },
        wait \in { << >>, << AwaitCall >> },
        use \in { VarInit({"y", "z"}), VarInit({"y"}), DfReturn({"y"}), DfThrow({"y"}) } }

\* A task function with data-flow variables about to be called.
InitDfv ==
    /\ ch = Channel
    /\ ticks = << >>
    /\ puts = << >>
    /\ takes = 0
    /\ delivered = << >>
    /\ phase = "idle"
    /\ \E body \in DfPrograms : code = DfCompile(body)
    /\ sm = [id |-> 0, waiting |-> {}]
    /\ vars = [y |-> Unresolved, z |-> Unresolved, xs |-> << >>]
    /\ arr = << >>
    /\ arguments = << >>
    /\ nextTicks = << >>
    /\ conts = {}
    /\ finals = << >>
    /\ escaped = << >>
    /\ stepsRun = 0
    /\ hist = << >>

\* The task function is called: start() hands step 1 to nextTick.
DfInvoke ==
    /\ phase = "idle"
    /\ phase' = "called"
    /\ nextTicks' = << [t |-> "step", x |-> "", id |-> 1] >>
    /\ UNCHANGED <<code, sm, vars, arr, arguments, conts, finals, escaped, stepsRun, hist>>
    /\ UNCHANGED chanVars

\* The host runs the oldest thunk, a step of the body.
DfStep ==
    /\ Len(nextTicks) > 0
    /\ Head(nextTicks).t = "step"
    /\ \E w \in { DfRunSwitch([World EXCEPT !.ticks = Tail(@),
                                             !.stepsRun = @ + 1],
                              Head(nextTicks).id) } : Becomes(w)
    /\ UNCHANGED <<phase, chanVars>>

\* The host runs the oldest thunk, the first step of a spawned instance of
\* `task (x, v) { x := v; }`.
DfBinder ==
    /\ Len(nextTicks) > 0
    /\ Head(nextTicks).t = "bind"
    /\ \E w \in { dfbind([World EXCEPT !.ticks = Tail(@)], Head(nextTicks).x,
                         BoundValue[Head(nextTicks).x]) } : Becomes(w)
    /\ UNCHANGED <<phase, chanVars>>

\* The host runs the oldest thunk, the call of the trailing callback.
DfFinal ==
    /\ Len(nextTicks) > 0
    /\ Head(nextTicks).t = "final"
    /\ finals' = Append(finals, arguments)
    /\ nextTicks' = Tail(nextTicks)
    /\ UNCHANGED <<code, sm, vars, arr, arguments, conts, escaped, stepsRun, hist>>
    /\ UNCHANGED <<phase, chanVars>>

\* The external operation of `await op();` calls its continuation.
DfOperationCompletes ==
    /\ \E id \in conts :
         \E w \in { DfRunSwitch([World EXCEPT !.conts = {}, !.stepsRun = @ + 1], id) } :
           Becomes(w)
    /\ UNCHANGED <<phase, chanVars>>

NextDfv == DfInvoke \/ DfStep \/ DfBinder \/ DfFinal \/ DfOperationCompletes

SpecDfv == InitDfv /\ [][NextDfv]_allVars

(***************************************************************************)
(* Properties of data-flow variables                                       *)
(***************************************************************************)

\* The data-flow variables the statement of a step mentions.
DfReads(id) == code[id].reads \cap DeclaredDfvars

\* The executions of the step id so far, as positions of hist.
Executions(id) == {i \in 1..Len(hist) : hist[i].step = id}

\* The first steps of spawned binders that the host has not run yet.
PendingBinds == {nextTicks[i].x : i \in {j \in 1..Len(nextTicks) : nextTicks[j].t = "bind"}}

Times(s, cb) == Cardinality({ i \in 1..Len(s) : s[i].cb = cb })

\* cb is the callback of a value waiting in the queue of c.
Waiting(c, cb) == \E i \in 1..Len(c._queue) : c._queue[i]._callback = cb

\* C23: on a buffer(n) channel a put issued while backlog() < n has its
\* continuation signalled by the put itself, with no take occurring: the signal
\* is scheduled in the step of the put and the value does not wait with the
\* continuation.  A put issued while backlog() >= n is not signalled by the put:
\* the value waits in the queue with the continuation, and the first signal of
\* such a continuation is scheduled by a step that is a take.
C23_BufferedPutWaitsBeyondN ==
    [][ ch.put = "bufferedPut"
        => /\ puts' # puts
              => LET k == Len(puts')
                 IN IF backlog(ch) < ch._bufferLength
                    THEN /\ takes' = takes
                         /\ Times(ticks', PutCb(k)) = 1
                         /\ Len(ticks') > Len(ticks)
                         /\ ticks'[Len(ticks')] = Signal(PutCb(k), k)
                         /\ ~Waiting(ch', PutCb(k))
                    ELSE /\ Times(Signals', PutCb(k)) = 0
                         /\ ch'._queue = Append(ch._queue, CBV(PutCb(k), k))
           /\ \A k \in 1..Len(puts) :
                ( /\ Waiting(ch, PutCb(k))
                  /\ Times(Signals, PutCb(k)) = 0
                  /\ Times(Signals', PutCb(k)) > 0 )
                => takes' = takes + 1 ]_allVars

\* buffer(2): the first two puts were signalled before any take, the third
\* waited and was signalled after the first take.
C23_Witness ==
    /\ ch.put = "bufferedPut"
    /\ ch._bufferLength = 2
    /\ Len(puts) = 3
    /\ takes = 1
    /\ \E i, j, l \in 1..Len(delivered) :
         /\ i < j /\ j < l
         /\ delivered[i] = Signal(PutCb(2), 2)
         /\ delivered[j] = Signal(TakeCb(1), 1)
         /\ delivered[l] = Signal(PutCb(3), 3)

\* The values of the queue of c, oldest first.
QueuedValues(c) == [i \in 1..Len(c._queue) |-> c._queue[i]._value]

\* The values of s are in the order in which they were put (put k puts k).
InPutOrder(s) == \A i, j \in 1..Len(s) : i < j => s[i] < s[j]

\* C24: on a droppingBuffer(n) channel a put never waits for a reader: the put
\* schedules the one signal of its continuation itself, for a later turn, and
\* no continuation is ever kept in the queue.  A put issued while
\* backlog() >= n leaves the channel unchanged; a put issued while
\* backlog() < n is appended to the queue (or handed to the oldest waiting
\* reader).  The queue never holds more than n values and holds them in put
\* order.
C24_DroppingPutNeverWaits ==
    /\ [] ( ch.put = "droppingPut"
            => /\ Len(ch._queue) <= ch._bufferLength
               /\ InPutOrder(QueuedValues(ch))
               /\ \A i \in 1..Len(ch._queue) : ch._queue[i]._callback = NoCallback )
    /\ [][ (ch.put = "droppingPut" /\ puts' # puts)
           => LET k == Len(puts')
              IN /\ delivered' = delivered
                 /\ Len(ticks') > Len(ticks)
                 /\ ticks'[Len(ticks')].cb = PutCb(k)
                 /\ Times(Signals', PutCb(k)) = 1
                 /\ takes' = takes
                 /\ IF backlog(ch) >= ch._bufferLength
                    THEN /\ ch' = ch
                         /\ ticks' = Append(ticks, Signal(PutCb(k), NullValue))
                    ELSE IF ch._pending = << >>
                    THEN /\ ch'._queue = Append(ch._queue, CBV(NoCallback, k))
                         /\ ticks' = Append(ticks, Signal(PutCb(k), k))
                    ELSE /\ ch'._queue = ch._queue
                         /\ ch'._pending = Tail(ch._pending)
                         /\ ticks' = ticks \o << Signal(Head(ch._pending), k),
                                                 Signal(PutCb(k), k) >> ]_allVars

\* droppingBuffer(2): three puts and no take; the queue holds 1 and 2, the
\* third put was dropped and its continuation has run all the same.
C24_Witness ==
    /\ ch.put = "droppingPut"
    /\ ch._bufferLength = 2
    /\ puts = << 1, 2, 3 >>
    /\ takes = 0
    /\ QueuedValues(ch) = << 1, 2 >>
    /\ Times(delivered, PutCb(3)) = 1

\* The smaller of two numbers.
Min(a, b) == IF a < b THEN a ELSE b

\* The last n values of the sequence s.
Newest(s, n) == [i \in 1..n |-> s[Len(s) - n + i]]

\* C25: on an expiringBuffer(n) channel a put never waits for a reader: the put
\* schedules the one signal of its continuation itself and no continuation is
\* kept in the queue.  The queue holds at most n values and they are the most
\* recently put values, in put order; after m puts and no take it holds exactly
\* the min(m, n) most recent ones.  A take on a non-empty queue returns the
\* oldest value retained.
C25_ExpiringKeepsNewest ==
    /\ [] ( ch.put = "expiringPut"
            => /\ Len(ch._queue) <= ch._bufferLength
               /\ Len(ch._queue) <= Len(puts)
               /\ QueuedValues(ch) = Newest(puts, Len(ch._queue))
               /\ \A i \in 1..Len(ch._queue) : ch._queue[i]._callback = NoCallback
               /\ takes = 0 => Len(ch._queue) = Min(Len(puts), ch._bufferLength) )
    /\ [][ ch.put = "expiringPut"
           => /\ puts' # puts
                 => LET k == Len(puts')
                    IN /\ delivered' = delivered
                       /\ Len(ticks') > Len(ticks)
                       /\ ticks'[Len(ticks')] = Signal(PutCb(k), k)
                       /\ Times(Signals', PutCb(k)) = 1
                       /\ takes' = takes
              /\ (takes' # takes /\ Len(ch._queue) > 0)
                 => /\ ticks' = Append(ticks, Signal(TakeCb(takes'), QueuedValues(ch)[1]))
                    /\ ch'._queue = Tail(ch._queue) ]_allVars

\* expiringBuffer(2): three puts, then two takes; 1 was evicted by the third
\* put and the takes returned 2 and 3.
C25_Witness ==
    /\ ch.put = "expiringPut"
    /\ ch._bufferLength = 2
    /\ puts = << 1, 2, 3 >>
    /\ takes = 2
    /\ \E i, j \in 1..Len(delivered) :
         /\ i < j
         /\ delivered[i] = Signal(TakeCb(1), 2)
         /\ delivered[j] = Signal(TakeCb(2), 3)
    /\ Times(delivered, PutCb(3)) = 1

(***************************************************************************)
(* Part IV. Channel.merge                                                  *)
(*                                                                         *)
(* ch is the record [channels, channel]: the array of source channels given *)
(* to merge and the channel it returns.  A source channel is identified by  *)
(* its position in the array.  puts is the sequence of the puts made on the *)
(* sources, [ix, val]; put number k on a source puts k, or null.  takes     *)
(* counts the takes on the merged channel.  delivered is the sequence of    *)
(* all the callbacks the host has run.                                      *)
(***************************************************************************)

\* Bound of the number of source channels.
MaxSources == 2

\* The functions writer and reader of piper(ch, i), as callbacks.
WriterCb(i) == [who |-> "writer", k |-> i]
ReaderCb(i) == [who |-> "reader", k |-> i]

\* function MergedChannelValue(i, ch, err, value)
MergedChannelValue(i, c, err, value) == [ix |-> i, chan |-> c, err |-> err, val |-> value]

\* A writer that sees the index of the last piper (a variable shared by the
\* closures) in place of its own.
writer_sharedIndex(m, i, err, value) ==
    LET n == Len(m.channels)
        r == ChannelPut(m.channel, MergedChannelValue(n, n, err, value), ReaderCb(i))
    IN [ch |-> [m EXCEPT !.channel = r.ch], sent |-> r.sent]

\* function writer(err, value) of piper(ch, i)
writer(m, i, err, value) ==
    LET r == ChannelPut(m.channel, MergedChannelValue(i, i, err, value), ReaderCb(i))
    IN [ch |-> [m EXCEPT !.channel = r.ch], sent |-> r.sent]

\* function reader(err, value) of piper(ch, i)
reader(m, i) ==
    LET r == ChannelTake(m.channels[i], WriterCb(i))
    IN [ch |-> [m EXCEPT !.channels[i] = r.ch], sent |-> r.sent]

\* channels.forEach(piper), from the i-th channel on: piper calls reader(null, null).
RECURSIVE forEachPiper(_, _, _)
forEachPiper(m, i, sent) ==
    IF i > Len(m.channels) THEN [ch |-> m, sent |-> sent]
    ELSE LET r == reader(m, i) IN forEachPiper(r.ch, i + 1, sent \o r.sent)

\* Channel.merge(channels)
merge(channels) == forEachPiper([channels |-> channels, channel |-> Channel], 1, << >>)

\* The values put so far on source i.
PutsOn(i) ==
    LET on == SelectSeq(puts, LAMBDA p : p.ix = i)
    IN [j \in 1..Len(on) |-> on[j].val]

\* Channel.merge of one or more new channels.
InitMerge ==
    /\ \E n \in 1..MaxSources :
         LET r == merge([i \in 1..n |-> Channel])
         IN /\ ch = r.ch
            /\ ticks = Deferred(r.sent)
    /\ puts = << >>
    /\ takes = 0
    /\ delivered = << >>
    /\ phase = "idle"
    /\ code = << >>
    /\ sm = [id |-> 0]
    /\ vars = [c |-> TRUE]
    /\ arr = << >>
    /\ arguments = << >>
    /\ nextTicks = << >>
    /\ conts = {}
    /\ finals = << >>
    /\ escaped = << >>
    /\ stepsRun = 0
    /\ hist = << >>

\* channels[i].put(value): the next number of source i, or null.
MergeSourcePut ==
    /\ Len(puts) < MaxPuts
    /\ \E i \in 1..Len(ch.channels) :
         \E value \in { NullValue,
                        Len(SelectSeq(PutsOn(i), LAMBDA v : v # NullValue)) + 1 } :
           LET r == ChannelPut(ch.channels[i], value, NoCallback)
           IN /\ ch' = [ch EXCEPT !.channels[i] = r.ch]
              /\ ticks' = ticks \o Deferred(r.sent)
              /\ puts' = Append(puts, [ix |-> i, val |-> value])
    /\ UNCHANGED <<takes, delivered>>
    /\ UNCHANGED taskVars

\* channel.take(cb) on the merged channel.
MergeTake ==
    /\ takes < MaxTakes
    /\ LET r == ChannelTake(ch.channel, TakeCb(takes + 1))
       IN /\ ch' = [ch EXCEPT !.channel = r.ch]
          /\ ticks' = ticks \o Deferred(r.sent)
    /\ takes' = takes + 1
    /\ UNCHANGED <<puts, delivered>>
    /\ UNCHANGED taskVars

\* The host runs the oldest thunk, and it calls a writer.
MergeWriter ==
    /\ Len(ticks) > 0
    /\ Head(ticks).cb.who = "writer"
    /\ LET s == Head(ticks)
           r == writer(ch, s.cb.k, s.err, s.value)
       IN /\ ch' = r.ch
          /\ ticks' = Tail(ticks) \o Deferred(r.sent)
          /\ delivered' = Append(delivered, s)
    /\ UNCHANGED <<puts, takes>>
    /\ UNCHANGED taskVars

\* The host runs the oldest thunk, and it calls a reader.
MergeReader ==
    /\ Len(ticks) > 0
    /\ Head(ticks).cb.who = "reader"
    /\ LET s == Head(ticks)
           r == reader(ch, s.cb.k)
       IN /\ ch' = r.ch
          /\ ticks' = Tail(ticks) \o Deferred(r.sent)
          /\ delivered' = Append(delivered, s)
    /\ UNCHANGED <<puts, takes>>
    /\ UNCHANGED taskVars

\* The host runs the oldest thunk, and it calls the callback of a take.
MergeTick ==
    /\ Len(ticks) > 0
    /\ Head(ticks).cb.who = "take"
    /\ delivered' = Append(delivered, Head(ticks))
    /\ ticks' = Tail(ticks)
    /\ UNCHANGED <<ch, puts, takes>>
    /\ UNCHANGED taskVars

NextMerge == MergeSourcePut \/ MergeTake \/ MergeWriter \/ MergeReader \/ MergeTick

SpecMerge == InitMerge /\ [][NextMerge]_allVars

(***************************************************************************)
(* Properties of Channel.merge                                             *)
(***************************************************************************)

\* The values the merged channel has given or will give to its takes, in the
\* order of the takes: those signalled to the takes so far, then its queue.
Relayed ==
    LET n == Cardinality({ i \in 1..Len(Signals) : Signals[i].cb.who = "take" })
        given == [k \in 1..n |->
                    Signals[CHOOSE i \in 1..Len(Signals) : Signals[i].cb = TakeCb(k)].value]
    IN given \o QueuedValues(ch.channel)

\* The values of source i among the values relayed, in the order relayed.
RelayedFrom(i) ==
    LET from == SelectSeq(Relayed, LAMBDA x : x.ix = i)
    IN [j \in 1..Len(from) |-> from[j].val]

\* The values of source i on their way to its writer.
TakenFrom(i) ==
    LET to == SelectSeq(ticks, LAMBDA s : s.cb = WriterCb(i))
    IN [j \in 1..Len(to) |-> to[j].value]

\* C26: every value on the merged channel is a wrapper naming a source channel
\* and its index and carrying no error; for each source, the values relayed
\* from it, followed by the value on its way to the merged channel and by the
\* values still queued in the source, are the values put on the source in the
\* order they were put: each value is relayed once and in the source's order.
C26_MergeKeepsSourceOrder ==
    /\ \A k \in 1..Len(Relayed) :
         /\ Relayed[k].ix \in 1..Len(ch.channels)
         /\ Relayed[k].chan = Relayed[k].ix
         /\ Relayed[k].err = NULL
    /\ \A i \in 1..Len(ch.channels) :
         /\ RelayedFrom(i) \o TakenFrom(i) \o QueuedValues(ch.channels[i]) = PutsOn(i)
         /\ Len(TakenFrom(i)) <= 1

\* Two sources: 1 was put on the second, then 1 on the first, then 2 on the
\* second; three takes on the merged channel received them in that order, each
\* with its source.
C26_Witness ==
    /\ Len(ch.channels) = 2
    /\ puts = << [ix |-> 2, val |-> 1], [ix |-> 1, val |-> 1], [ix |-> 2, val |-> 2] >>
    /\ takes = 3
    /\ \E i, j, l \in 1..Len(delivered) :
         /\ i < j /\ j < l
         /\ delivered[i].cb = TakeCb(1)
         /\ delivered[i].value = MergedChannelValue(2, 2, NULL, 1)
         /\ delivered[j].cb = TakeCb(2)
         /\ delivered[j].value = MergedChannelValue(1, 1, NULL, 1)
         /\ delivered[l].cb = TakeCb(3)
         /\ delivered[l].value = MergedChannelValue(2, 2, NULL, 2)

\* C27: once the writer of a source has been called with null, no further take
\* is made on that source (its writer neither waits in the source nor is
\* called again) and none of the source's later values appears on the merged
\* channel: the values relayed from the source hold nothing after a null.
C27_MergeStopsAtNull ==
    \A i \in 1..Len(ch.channels) :
      \A j \in 1..Len(delivered) :
        (delivered[j].cb = WriterCb(i) /\ delivered[j].value = NullValue)
        => /\ \A l \in (j + 1)..Len(delivered) : delivered[l].cb # WriterCb(i)
           /\ Times(ticks, WriterCb(i)) = 0
           /\ \A l \in 1..Len(ch.channels[i]._pending) :
                ch.channels[i]._pending[l] # WriterCb(i)
           /\ \A k, l \in 1..Len(RelayedFrom(i)) :
                (k < l) => RelayedFrom(i)[k] # NullValue

\* One source: null was put on it, then 1; the first take on the merged channel
\* received the wrapper of null, the second the wrapper of 1.
C27_Witness ==
    /\ Len(ch.channels) = 1
    /\ puts = << [ix |-> 1, val |-> NullValue], [ix |-> 1, val |-> 1] >>
    /\ takes = 2
    /\ \E i, j \in 1..Len(delivered) :
         /\ i < j
         /\ delivered[i].cb = TakeCb(1)
         /\ delivered[i].value = MergedChannelValue(1, 1, NULL, NullValue)
         /\ delivered[j].cb = TakeCb(2)
         /\ delivered[j].value = MergedChannelValue(1, 1, NULL, 1)

(***************************************************************************)
(* Part V. takeN, group and stream                                         *)
(*                                                                         *)
(* These functions keep their state in the variables of a closure (group,  *)
(* i); vars holds the closure of the call in progress.  The values put are *)
(* 1, 2, 3, ... in the order of the puts.                                  *)
(***************************************************************************)

\* The task variables other than vars.
closureFrame == <<phase, code, sm, arr, arguments, nextTicks, conts, finals,
                  escaped, stepsRun, hist>>

\* Bound of N in takeN(N, callback) and group(N).
MaxN == 2

\* function sendError(err, callback)
sendError(err, cb) ==
    IF cb = NoCallback THEN << >>
    ELSE << [cb |-> cb, err |-> err, value |-> NULL, via |-> "nextTick"] >>

\* The callback given to takeN, and the function receive of its closure.
TakeNCb == [who |-> "takeN", k |-> 1]
ReceiveCb == [who |-> "receive", k |-> 1]

\* A receive that, like the one of group, does not look at err.
takeN_receive_noErrorTest(c, env, err, value) ==
    LET g == Append(env.group, value)
    IN IF Len(g) < env.N
       THEN LET r == ChannelTake(c, ReceiveCb)
            IN [ch |-> r.ch, env |-> [env EXCEPT !.group = g], sent |-> r.sent]
       ELSE [ch |-> c, env |-> [env EXCEPT !.group = g], sent |-> sendValue(g, TakeNCb)]

\* function receive(err, value) of Channel.prototype.takeN
takeN_receive(c, env, err, value) ==
    IF err # NULL
    THEN [ch |-> c, env |-> env, sent |-> sendError(err, TakeNCb)]
    ELSE LET g == Append(env.group, value)
         IN IF Len(g) < env.N
            THEN LET r == ChannelTake(c, ReceiveCb)
                 IN [ch |-> r.ch, env |-> [env EXCEPT !.group = g], sent |-> r.sent]
            ELSE [ch |-> c, env |-> [env EXCEPT !.group = g],
                  sent |-> sendValue(g, TakeNCb)]

\* Channel.prototype.takeN = function (N, callback)
takeN(c, N) ==
    LET r == ChannelTake(c, ReceiveCb)
    IN [ch |-> r.ch, env |-> [N |-> N, group |-> << >>], sent |-> r.sent]

\* new Channel(); takeN has not been called (N = 0).
InitTakeN ==
    /\ ch = Channel
    /\ ticks = << >>
    /\ puts = << >>
    /\ takes = 0
    /\ delivered = << >>
    /\ phase = "idle"
    /\ code = << >>
    /\ sm = [id |-> 0]
    /\ vars = [N |-> 0, group |-> << >>]
    /\ arr = << >>
    /\ arguments = << >>
    /\ nextTicks = << >>
    /\ conts = {}
    /\ finals = << >>
    /\ escaped = << >>
    /\ stepsRun = 0
    /\ hist = << >>

\* ch.put(k) or ch.put(k, cb), the k-th put.
TakeNPut ==
    /\ Len(puts) < MaxPuts
    /\ \E withCb \in BOOLEAN :
         LET k == Len(puts) + 1
             r == ChannelPut(ch, k, IF withCb THEN PutCb(k) ELSE NoCallback)
         IN /\ ch' = r.ch
            /\ ticks' = ticks \o Deferred(r.sent)
            /\ puts' = Append(puts, k)
    /\ UNCHANGED <<takes, delivered, vars>>
    /\ UNCHANGED closureFrame

\* ch.takeN(N, callback)
TakeNCall ==
    /\ vars.N = 0
    /\ \E N \in 1..MaxN :
         LET r == takeN(ch, N)
         IN /\ ch' = r.ch
            /\ vars' = r.env
            /\ ticks' = ticks \o Deferred(r.sent)
    /\ takes' = takes + 1
    /\ UNCHANGED <<puts, delivered>>
    /\ UNCHANGED closureFrame

\* The host runs the oldest thunk, and it calls receive.
TakeNReceive ==
    /\ Len(ticks) > 0
    /\ Head(ticks).cb = ReceiveCb
    /\ LET s == Head(ticks)
           r == takeN_receive(ch, vars, s.err, s.value)
       IN /\ ch' = r.ch
          /\ vars' = r.env
          /\ ticks' = Tail(ticks) \o Deferred(r.sent)
          /\ delivered' = Append(delivered, s)
          /\ takes' = IF r.ch # ch THEN takes + 1 ELSE takes
    /\ UNCHANGED puts
    /\ UNCHANGED closureFrame

\* The read for which receive waits reports an error.
TakeNReadFails ==
    /\ Len(ch._pending) > 0
    /\ Head(ch._pending) = ReceiveCb
    /\ ch' = [ch EXCEPT !._pending = Tail(@)]
    /\ ticks' = ticks \o sendError("E", ReceiveCb)
    /\ UNCHANGED <<puts, takes, delivered, vars>>
    /\ UNCHANGED closureFrame

\* The host runs the oldest thunk, and it calls the callback of a put or of takeN.
TakeNTick ==
    /\ Len(ticks) > 0
    /\ Head(ticks).cb # ReceiveCb
    /\ delivered' = Append(delivered, Head(ticks))
    /\ ticks' = Tail(ticks)
    /\ UNCHANGED <<ch, puts, takes, vars>>
    /\ UNCHANGED closureFrame

NextTakeN == TakeNPut \/ TakeNCall \/ TakeNReceive \/ TakeNReadFails \/ TakeNTick

SpecTakeN == InitTakeN /\ [][NextTakeN]_allVars

(***************************************************************************)
(* Properties of takeN                                                     *)
(***************************************************************************)

\* The values taken from the channel and on their way to cb.
OnTheirWayTo(cb) ==
    LET to == SelectSeq(ticks, LAMBDA s : s.cb = cb /\ s.err = NULL)
    IN [j \in 1..Len(to) |-> to[j].value]

\* The first n values of the sequence s.
Oldest(s, n) == [i \in 1..n |-> s[i]]

MaxSourceValues == 4

\* The functions receive and loop of the closure of group, as callbacks.
GroupReceiveCb == [who |-> "groupReceive", k |-> 1]
LoopCb == [who |-> "loop", k |-> 1]

\* function loop() of Channel.prototype.group
group_loop(m) ==
    LET r == ChannelTake(m.self, GroupReceiveCb)
    IN [ch |-> [m EXCEPT !.self = r.ch], sent |-> r.sent]

\* A receive that puts the group and goes on filling the same array.
group_receive_sameArray(m, env, err, value) ==
    LET g == Append(env.group, value)
    IN IF Len(g) < env.N
       THEN LET r == group_loop(m)
            IN [ch |-> r.ch, env |-> [env EXCEPT !.group = g], sent |-> r.sent]
       ELSE LET r == ChannelPut(m.gch, g, LoopCb)
            IN [ch |-> [m EXCEPT !.gch = r.ch], env |-> [env EXCEPT !.group = g],
                sent |-> r.sent]

\* function receive(err, value) of Channel.prototype.group
group_receive(m, env, err, value) ==
    LET g == Append(env.group, value)
    IN IF Len(g) < env.N
       THEN LET r == group_loop(m)
            IN [ch |-> r.ch, env |-> [env EXCEPT !.group = g], sent |-> r.sent]
       ELSE LET r == ChannelPut(m.gch, g, LoopCb)
            IN [ch |-> [m EXCEPT !.gch = r.ch], env |-> [env EXCEPT !.group = << >>],
                sent |-> r.sent]

\* Channel.prototype.group = function (N)
group(c, N) ==
    LET r == group_loop([self |-> c, gch |-> Channel])
    IN [ch |-> r.ch, env |-> [N |-> N, group |-> << >>], sent |-> r.sent]

\* (new Channel()).group(N)
InitGroup ==
    /\ \E N \in 1..MaxN :
         LET r == group(Channel, N)
         IN /\ ch = r.ch
            /\ vars = r.env
            /\ ticks = Deferred(r.sent)
    /\ puts = << >>
    /\ takes = 0
    /\ delivered = << >>
    /\ phase = "idle"
    /\ code = << >>
    /\ sm = [id |-> 0]
    /\ arr = << >>
    /\ arguments = << >>
    /\ nextTicks = << >>
    /\ conts = {}
    /\ finals = << >>
    /\ escaped = << >>
    /\ stepsRun = 0
    /\ hist = << >>

\* ch.put(k) or ch.put(k, cb) on the source, the k-th put.
GroupSourcePut ==
    /\ Len(puts) < MaxSourceValues
    /\ \E withCb \in BOOLEAN :
         LET k == Len(puts) + 1
             r == ChannelPut(ch.self, k, IF withCb THEN PutCb(k) ELSE NoCallback)
         IN /\ ch' = [ch EXCEPT !.self = r.ch]
            /\ ticks' = ticks \o Deferred(r.sent)
            /\ puts' = Append(puts, k)
    /\ UNCHANGED <<takes, delivered, vars>>
    /\ UNCHANGED closureFrame

\* gch.take(cb)
GroupTake ==
    /\ takes < MaxTakes
    /\ LET r == ChannelTake(ch.gch, TakeCb(takes + 1))
       IN /\ ch' = [ch EXCEPT !.gch = r.ch]
          /\ ticks' = ticks \o Deferred(r.sent)
    /\ takes' = takes + 1
    /\ UNCHANGED <<puts, delivered, vars>>
    /\ UNCHANGED closureFrame

\* The host runs the oldest thunk, and it calls receive.
GroupReceive ==
    /\ Len(ticks) > 0
    /\ Head(ticks).cb = GroupReceiveCb
    /\ LET s == Head(ticks)
           r == group_receive(ch, vars, s.err, s.value)
       IN /\ ch' = r.ch
          /\ vars' = r.env
          /\ ticks' = Tail(ticks) \o Deferred(r.sent)
          /\ delivered' = Append(delivered, s)
    /\ UNCHANGED <<puts, takes>>
    /\ UNCHANGED closureFrame

\* The host runs the oldest thunk, and it calls loop.
GroupLoop ==
    /\ Len(ticks) > 0
    /\ Head(ticks).cb = LoopCb
    /\ LET r == group_loop(ch)
       IN /\ ch' = r.ch
          /\ ticks' = Tail(ticks) \o Deferred(r.sent)
          /\ delivered' = Append(delivered, Head(ticks))
    /\ UNCHANGED <<puts, takes, vars>>
    /\ UNCHANGED closureFrame

\* The host runs the oldest thunk, and it calls the callback of a put or a take.
GroupTick ==
    /\ Len(ticks) > 0
    /\ Head(ticks).cb.who \in {"put", "take"}
    /\ delivered' = Append(delivered, Head(ticks))
    /\ ticks' = Tail(ticks)
    /\ UNCHANGED <<ch, puts, takes, vars>>
    /\ UNCHANGED closureFrame

NextGroup == GroupSourcePut \/ GroupTake \/ GroupReceive \/ GroupLoop \/ GroupTick

SpecGroup == InitGroup /\ [][NextGroup]_allVars

(***************************************************************************)
(* Properties of group                                                     *)
(***************************************************************************)

\* The values gch has given or will give to its takes, in the order of the
\* takes: those signalled to the takes so far, then its queue.
Groups ==
    LET n == Cardinality({ i \in 1..Len(Signals) : Signals[i].cb.who = "take" })
        given == [k \in 1..n |->
                    Signals[CHOOSE i \in 1..Len(Signals) : Signals[i].cb = TakeCb(k)].value]
    IN given \o QueuedValues(ch.gch)

\* The sequences of the sequence s, one after the other.
RECURSIVE Flatten(_)
Flatten(s) == IF s = << >> THEN << >> ELSE Head(s) \o Flatten(Tail(s))

\* C29: the k-th value of the channel made by group(n) is the sequence of the
\* source values number (k-1)*n+1 .. k*n, in arrival order (the source values
\* are 1, 2, 3, ... in arrival order).  The groups, followed by the values of
\* the group being collected, the value on its way to receive and the values
\* left in the source, are the values put on the source in put order: no value
\* is lost, duplicated or in two groups.
C29_GroupsOfN ==
    /\ \A k \in 1..Len(Groups) : Groups[k] = [j \in 1..vars.N |-> (k - 1) * vars.N + j]
    /\ Len(vars.group) < vars.N
    /\ Flatten(Groups) \o vars.group \o OnTheirWayTo(GroupReceiveCb)
         \o QueuedValues(ch.self) = puts

\* group(2) of a source that received 1, 2, 3 and 4: two takes received
\* <<1, 2>> and <<3, 4>>.
C29_Witness ==
    /\ vars.N = 2
    /\ puts = << 1, 2, 3, 4 >>
    /\ \E i, j \in 1..Len(delivered) :
         /\ i < j
         /\ delivered[i].cb = TakeCb(1)
         /\ delivered[i].value = << 1, 2 >>
         /\ delivered[j].cb = TakeCb(2)
         /\ delivered[j].value = << 3, 4 >>

(***************************************************************************)
(* stream                                                                  *)
(*                                                                         *)
(* vars holds the closure of stream: array, i and callback.  puts is the   *)
(* sequence of the values that stream has put on the channel.              *)
(***************************************************************************)

\* The callback given to stream, and the function next of its closure.
StreamCb == [who |-> "stream", k |-> 1]
NextCb == [who |-> "next", k |-> 1]

\* A next that does not wait for the value to be consumed: it puts the value
\* without a callback and schedules itself.
stream_next_unpaced(c, env) ==
    IF env.i < Len(env.array)
    THEN LET r == ChannelPut(c, env.array[env.i + 1], NoCallback)
         IN [ch |-> r.ch, env |-> [env EXCEPT !.i = @ + 1],
             sent |-> r.sent \o sendValue(env.array[env.i + 1], NextCb)]
    ELSE [ch |-> c, env |-> env, sent |-> sendValue(env.array, env.callback)]

\* function next() of Channel.prototype.stream
stream_next(c, env) ==
    IF env.i < Len(env.array)
    THEN LET r == ChannelPut(c, env.array[env.i + 1], NextCb)
         IN [ch |-> r.ch, env |-> [env EXCEPT !.i = @ + 1], sent |-> r.sent]
    ELSE [ch |-> c, env |-> env, sent |-> sendValue(env.array, env.callback)]

\* Channel.prototype.stream = function (array, callback)
stream(c, array, cb) == stream_next(c, [array |-> array, i |-> 0, callback |-> cb])

\* ch.take(cb), n times, on the channel c.
RECURSIVE TakeTimes(_, _, _)
TakeTimes(c, k, n) ==
    IF k > n THEN c ELSE TakeTimes(ChannelTake(c, TakeCb(k)).ch, k + 1, n)

\* ch.stream([1, ..., n]) or ch.stream([1, ..., n], k) on a new channel, or on
\* one where readers wait.
InitStream ==
    /\ \E n \in 0..MaxSourceValues, waiting \in 0..(MaxTakes - 1), withCb \in BOOLEAN :
         LET r == stream(TakeTimes(Channel, 1, waiting), [j \in 1..n |-> j],
                         IF withCb THEN StreamCb ELSE NoCallback)
         IN /\ ch = r.ch
            /\ vars = r.env
            /\ ticks = Deferred(r.sent)
            /\ puts = Oldest(r.env.array, r.env.i)
            /\ takes = waiting
    /\ delivered = << >>
    /\ phase = "idle"
    /\ code = << >>
    /\ sm = [id |-> 0]
    /\ arr = << >>
    /\ arguments = << >>
    /\ nextTicks = << >>
    /\ conts = {}
    /\ finals = << >>
    /\ escaped = << >>
    /\ stepsRun = 0
    /\ hist = << >>

\* ch.take(cb)
StreamTake ==
    /\ takes < MaxSourceValues
    /\ LET r == ChannelTake(ch, TakeCb(takes + 1))
       IN /\ ch' = r.ch
          /\ ticks' = ticks \o Deferred(r.sent)
    /\ takes' = takes + 1
    /\ UNCHANGED <<puts, delivered, vars>>
    /\ UNCHANGED closureFrame

\* The host runs the oldest thunk, and it calls next.
StreamNext ==
    /\ Len(ticks) > 0
    /\ Head(ticks).cb = NextCb
    /\ LET r == stream_next(ch, vars)
       IN /\ ch' = r.ch
          /\ vars' = r.env
          /\ ticks' = Tail(ticks) \o Deferred(r.sent)
          /\ delivered' = Append(delivered, Head(ticks))
          /\ puts' = Oldest(r.env.array, r.env.i)
    /\ UNCHANGED takes
    /\ UNCHANGED closureFrame

\* The host runs the oldest thunk, and it calls the callback of a take or of stream.
StreamTick ==
    /\ Len(ticks) > 0
    /\ Head(ticks).cb # NextCb
    /\ delivered' = Append(delivered, Head(ticks))
    /\ ticks' = Tail(ticks)
    /\ UNCHANGED <<ch, puts, takes, vars>>
    /\ UNCHANGED closureFrame

NextStream == StreamTake \/ StreamNext \/ StreamTick

SpecStream == InitStream /\ [][NextStream]_allVars

(***************************************************************************)
(* Properties of stream                                                    *)
(***************************************************************************)

\* The number of values of the channel that takes have consumed.
Consumed == Cardinality({ i \in 1..Len(Signals) : Signals[i].cb.who = "take" })

\* C30: while stream feeds the channel, the channel holds at most one value not
\* yet consumed, so backlog() never exceeds 1: the elements offered so far are
\* those consumed by takes and at most one waiting in the queue, and it is the
\* last one offered.  The k-th take receives the k-th element.  The callback of
\* stream is signalled at most once, with the array, and only when every
\* element has been offered and consumed; once that is so and next has been
\* called for the last time, it has been signalled.
C30_StreamIsPaced ==
    /\ Len(ch._queue) <= 1
    /\ backlog(ch) <= 1
    /\ vars.i = Consumed + Len(ch._queue)
    /\ vars.i <= Len(vars.array)
    /\ QueuedValues(ch) = Newest(Oldest(vars.array, vars.i), Len(ch._queue))
    /\ \A i \in 1..Len(Signals) :
         Signals[i].cb.who = "take" => Signals[i].value = vars.array[Signals[i].cb.k]
    /\ Times(Signals, StreamCb) <= 1
    /\ \A i \in 1..Len(Signals) :
         Signals[i].cb = StreamCb
         => /\ Signals[i].value = vars.array
            /\ Signals[i].err = NULL
            /\ vars.i = Len(vars.array)
            /\ Consumed = Len(vars.array)
            /\ ch._queue = << >>
    /\ ( /\ vars.callback = StreamCb
         /\ Consumed = Len(vars.array)
         /\ Times(ticks, NextCb) = 0 )
       => Times(Signals, StreamCb) = 1

\* stream([1, 2, 3], k) on a new channel: three takes received 1, 2 and 3 in
\* this order, and k was called after them.
C30_Witness ==
    /\ vars.array = << 1, 2, 3 >>
    /\ vars.callback = StreamCb
    /\ \E a, b, c, d \in 1..Len(delivered) :
         /\ a < b /\ b < c /\ c < d
         /\ delivered[a].cb = TakeCb(1) /\ delivered[a].value = 1
         /\ delivered[b].cb = TakeCb(2) /\ delivered[b].value = 2
         /\ delivered[c].cb = TakeCb(3) /\ delivered[c].value = 3
         /\ delivered[d].cb = StreamCb

(***************************************************************************)
(* Part VI. map, filter and reduce                                         *)
(*                                                                         *)
(* ch is the record [self, ch2]: the source channel and the channel that   *)
(* map, filter or reduce returns.  vars holds the closure: the function    *)
(* called (kind), cond and, for reduce, result.  The values put on the     *)
(* source are 1, 2, 3, ... in the order of the puts; takes counts the      *)
(* takes on ch2.                                                           *)
(***************************************************************************)

\* cond(value) of map and filter is `value < StopValue`, or cond is true.
StopValue == 3

\* The functions given in the tests: x * x, x % 2 === 1 and sum + x.
MapF(x) == x * x
FilterF(x) == x % 2 = 1
ReduceF(sum, x) == sum + x

\* cond === true || cond(value)
CondHolds(cond, value) == cond = "true" \/ value < StopValue

\* The functions receive and loop of the closure, as callbacks.
PipeReceiveCb == [who |-> "pipeReceive", k |-> 1]
PipeLoopCb == [who |-> "pipeLoop", k |-> 1]

\* function loop() of map and of filter: self.take(receive)
pipe_loop(m) ==
    LET r == ChannelTake(m.self, PipeReceiveCb)
    IN [ch |-> [m EXCEPT !.self = r.ch], sent |-> r.sent]

\* ch2.put(value, callback) in a closure.
PutCh2(m, value, cb) ==
    LET r == ChannelPut(m.ch2, value, cb)
    IN [ch |-> [m EXCEPT !.ch2 = r.ch], sent |-> r.sent]

\* A receive of map that puts the value it was given, not f(value).
map_receive_identity(m, env, value) ==
    IF CondHolds(env.cond, value)
    THEN PutCh2(m, value, PipeLoopCb)
    ELSE PutCh2(m, NullValue, NoCallback)

\* A receive of map that gives loop as the callback of the terminator too.
map_receive_goesOn(m, env, value) ==
    IF CondHolds(env.cond, value)
    THEN PutCh2(m, MapF(value), PipeLoopCb)
    ELSE PutCh2(m, NullValue, PipeLoopCb)

\* function receive(err, value) of Channel.prototype.map
map_receive(m, env, value) ==
    IF CondHolds(env.cond, value)
    THEN PutCh2(m, MapF(value), PipeLoopCb)
    ELSE PutCh2(m, NullValue, NoCallback)

\* function receive(err, value) of Channel.prototype.filter
filter_receive(m, env, value) ==
    IF CondHolds(env.cond, value)
    THEN IF FilterF(value)
         THEN PutCh2(m, value, PipeLoopCb)
         ELSE pipe_loop(m)
    ELSE PutCh2(m, NullValue, NoCallback)

\* function loop() of Channel.prototype.reduce; c is what cond() returns.
reduce_loop(m, env, c) ==
    IF c THEN pipe_loop(m) ELSE PutCh2(m, env.result, NoCallback)

\* function receive(err, value) of Channel.prototype.reduce
reduce_receive(m, env, value, c) ==
    LET e == [env EXCEPT !.result = ReduceF(@, value)]
        r == reduce_loop(m, e, c)
    IN [ch |-> r.ch, env |-> e, sent |-> r.sent]

\* self.map(true, f), self.map(cond, f), self.filter(true, f),
\* self.filter(cond, f) or self.reduce(0, cond, f) on a new channel: each
\* ends with loop().
InitPipe ==
    /\ \E kind \in {"map", "filter", "reduce"}, cond \in {"true", "function"},
          c \in BOOLEAN :
         /\ kind = "reduce" => cond = "function"
         /\ kind # "reduce" => c
         /\ LET m == [self |-> Channel, ch2 |-> Channel]
                env == [kind |-> kind, cond |-> cond, result |-> 0]
                r == IF kind = "reduce" THEN reduce_loop(m, env, c) ELSE pipe_loop(m)
            IN /\ ch = r.ch
               /\ vars = env
               /\ ticks = Deferred(r.sent)
    /\ puts = << >>
    /\ takes = 0
    /\ delivered = << >>
    /\ phase = "idle"
    /\ code = << >>
    /\ sm = [id |-> 0]
    /\ arr = << >>
    /\ arguments = << >>
    /\ nextTicks = << >>
    /\ conts = {}
    /\ finals = << >>
    /\ escaped = << >>
    /\ stepsRun = 0
    /\ hist = << >>

\* self.put(k), the k-th put on the source.
PipeSourcePut ==
    /\ Len(puts) < MaxSourceValues
    /\ LET k == Len(puts) + 1
           r == ChannelPut(ch.self, k, NoCallback)
       IN /\ ch' = [ch EXCEPT !.self = r.ch]
          /\ ticks' = ticks \o Deferred(r.sent)
          /\ puts' = Append(puts, k)
    /\ UNCHANGED <<takes, delivered, vars>>
    /\ UNCHANGED closureFrame

\* ch2.take(cb)
PipeTake ==
    /\ takes < MaxSourceValues
    /\ LET r == ChannelTake(ch.ch2, TakeCb(takes + 1))
       IN /\ ch' = [ch EXCEPT !.ch2 = r.ch]
          /\ ticks' = ticks \o Deferred(r.sent)
    /\ takes' = takes + 1
    /\ UNCHANGED <<puts, delivered, vars>>
    /\ UNCHANGED closureFrame

\* The host runs the oldest thunk, and it calls receive.
PipeReceive ==
    /\ Len(ticks) > 0
    /\ Head(ticks).cb = PipeReceiveCb
    /\ \E c \in BOOLEAN :
         /\ vars.kind # "reduce" => c
         /\ LET s == Head(ticks)
                r == CASE vars.kind = "map" -> map_receive(ch, vars, s.value)
                       [] vars.kind = "filter" -> filter_receive(ch, vars, s.value)
                       [] vars.kind = "reduce" -> reduce_receive(ch, vars, s.value, c)
            IN /\ ch' = r.ch
               /\ vars' = IF vars.kind = "reduce" THEN r.env ELSE vars
               /\ ticks' = Tail(ticks) \o Deferred(r.sent)
               /\ delivered' = Append(delivered, s)
    /\ UNCHANGED <<puts, takes>>
    /\ UNCHANGED closureFrame

\* The host runs the oldest thunk, and it calls loop (the callback of ch2.put).
PipeLoop ==
    /\ Len(ticks) > 0
    /\ Head(ticks).cb = PipeLoopCb
    /\ LET r == pipe_loop(ch)
       IN /\ ch' = r.ch
          /\ ticks' = Tail(ticks) \o Deferred(r.sent)
          /\ delivered' = Append(delivered, Head(ticks))
    /\ UNCHANGED <<puts, takes, vars>>
    /\ UNCHANGED closureFrame

\* The host runs the oldest thunk, and it calls the callback of a take.
PipeTick ==
    /\ Len(ticks) > 0
    /\ Head(ticks).cb.who = "take"
    /\ delivered' = Append(delivered, Head(ticks))
    /\ ticks' = Tail(ticks)
    /\ UNCHANGED <<ch, puts, takes, vars>>
    /\ UNCHANGED closureFrame

NextPipe == PipeSourcePut \/ PipeTake \/ PipeReceive \/ PipeLoop \/ PipeTick

SpecPipe == InitPipe /\ [][NextPipe]_allVars

(***************************************************************************)
(* Properties of map, filter and reduce                                    *)
(***************************************************************************)

\* The values ch2 has given or will give to its takes, in the order of the
\* takes: those signalled to the takes so far, then its queue.
Ch2Values ==
    LET n == Cardinality({ i \in 1..Len(Signals) : Signals[i].cb.who = "take" })
        given == [k \in 1..n |->
                    Signals[CHOOSE i \in 1..Len(Signals) : Signals[i].cb = TakeCb(k)].value]
    IN given \o QueuedValues(ch.ch2)

\* The source values that receive has been called with, in source order: those
\* put, less the one on its way to receive and those waiting in the source.
Received ==
    Oldest(puts, Len(puts) - Len(OnTheirWayTo(PipeReceiveCb)) - Len(ch.self._queue))

RECURSIVE Fold(_, _)
Fold(a, x) == IF x = << >> THEN a ELSE Fold(ReduceF(a, Head(x)), Tail(x))

\* C32: the k-th value of the channel made by reduce is the fold of the first k
\* source values from the initial value, and there is one for every source
\* value received.
C32_ReduceRunningFold ==
    vars.kind = "reduce"
    => /\ \A k \in 1..Len(Ch2Values) :
            k <= Len(puts) /\ Ch2Values[k] = Fold(0, Oldest(puts, k))
       /\ Len(Ch2Values) = Len(Received)

\* What reduce does: its channel gets at most one value, put when cond() fails,
\* and it is the fold of all the source values received until then; no take is
\* made on the source afterwards.
C32_ReduceDeliversFinalFold ==
    vars.kind = "reduce"
    => /\ Len(Ch2Values) <= 1
       /\ vars.result = Fold(0, Received)
       /\ Len(Ch2Values) = 1
          => /\ Ch2Values[1] = Fold(0, Received)
             /\ ch.self._pending = << >>
             /\ OnTheirWayTo(PipeReceiveCb) = << >>

\* reduce(0, cond, +) of a source that received 1 and 2, cond() failing after
\* them: the first take on its channel received 3.
C32_Witness ==
    /\ vars.kind = "reduce"
    /\ Received = << 1, 2 >>
    /\ \E i \in 1..Len(delivered) :
         delivered[i].cb = TakeCb(1) /\ delivered[i].value = 3

\* The loop takes or is about to take from the source: receive waits in the
\* source or is about to be called, or loop is about to be called.
Pulling ==
    \/ \E i \in 1..Len(ch.self._pending) : ch.self._pending[i] = PipeReceiveCb
    \/ Times(ticks, PipeReceiveCb) > 0
    \/ Times(ticks, PipeLoopCb) > 0
    \/ Waiting(ch.ch2, PipeLoopCb)

\* cond has failed: for map and filter receive was called with a value for
\* which cond(value) fails; for reduce, whose cond() is evaluated by loop, the
\* loop has not taken again.
CondFailed ==
    IF vars.kind = "reduce" THEN ~Pulling
    ELSE \E k \in 1..Len(Received) : ~CondHolds(vars.cond, Received[k])

\* The number of null values among the values of ch2.
Terminators == Cardinality({ k \in 1..Len(Ch2Values) : Ch2Values[k] = NullValue })

MaxSubscribers == 2

\* The function receive of fanoutStart, as a callback.
FanReceiveCb == [who |-> "fanReceive", k |-> 1]

\* The sequence s without the element x.
Without(s, x) == SelectSeq(s, LAMBDA y : y # x)

\* function fanoutDisconnect(), with one argument
fanoutDisconnect(f, chan) == [f EXCEPT !._connections = Without(@, chan)]

\* function fanoutConnect(), with one argument
fanoutConnect(f, chan) ==
    [fanoutDisconnect(f, chan) EXCEPT !._connections = Append(@, chan)]

\* self.take(receive)
fanoutTake(f) ==
    LET r == ChannelTake([_queue |-> f._queue, _pending |-> f._pending, filled |-> << >>],
                         FanReceiveCb)
    IN [ch |-> [f EXCEPT !._queue = r.ch._queue, !._pending = r.ch._pending],
        sent |-> r.sent]

\* function fanoutStart()
fanoutStart(f) ==
    IF ~f._started THEN fanoutTake([f EXCEPT !._started = TRUE])
    ELSE [ch |-> f, sent |-> << >>]

\* for (i ...) self._connections[i].put(value), from the i-th connection on.
RECURSIVE PutToConnections(_, _, _)
PutToConnections(f, i, value) ==
    IF i > Len(f._connections) THEN f
    ELSE LET c == f._connections[i]
         IN PutToConnections(
              [f EXCEPT !.chans[c] = ChannelPut(@, value, NoCallback).ch], i + 1, value)

\* A receive that puts the value on the first connection only.
fanout_receive_firstOnly(f, value) ==
    IF value # NullValue
    THEN fanoutTake(IF Len(f._connections) > 0
                    THEN [f EXCEPT !.chans[f._connections[1]] =
                                     ChannelPut(@, value, NoCallback).ch]
                    ELSE f)
    ELSE [ch |-> f, sent |-> << >>]

\* function receive(err, value) of fanoutStart
fanout_receive(f, value) ==
    IF value # NullValue
    THEN fanoutTake(PutToConnections(f, 1, value))
    ELSE [ch |-> f, sent |-> << >>]

\* (new Channel()).fanout(), and the channels that can be connected.
InitFanout ==
    /\ ch = [_queue |-> << >>, _pending |-> << >>, _connections |-> << >>,
             _started |-> FALSE, chans |-> [c \in 1..MaxSubscribers |-> Channel]]
    /\ ticks = << >>
    /\ puts = << >>
    /\ takes = 0
    /\ delivered = << >>
    /\ phase = "idle"
    /\ code = << >>
    /\ sm = [id |-> 0]
    /\ vars = [c |-> TRUE]
    /\ arr = << >>
    /\ arguments = << >>
    /\ nextTicks = << >>
    /\ conts = {}
    /\ finals = << >>
    /\ escaped = << >>
    /\ stepsRun = 0
    /\ hist = << >>

\* source.put(value): the next number, or null.
FanSourcePut ==
    /\ Len(puts) < MaxPuts
    /\ \E value \in { NullValue, Len(Without(puts, NullValue)) + 1 } :
         LET r == ChannelPut([_queue |-> ch._queue, _pending |-> ch._pending,
                              filled |-> << >>], value, NoCallback)
         IN /\ ch' = [ch EXCEPT !._queue = r.ch._queue, !._pending = r.ch._pending]
            /\ ticks' = ticks \o Deferred(r.sent)
            /\ puts' = Append(puts, value)
    /\ UNCHANGED <<takes, delivered>>
    /\ UNCHANGED taskVars

\* ch.connect(chan)
FanConnect ==
    /\ \E c \in 1..MaxSubscribers :
         /\ ch' = fanoutConnect(ch, c)
         /\ ch' # ch
    /\ UNCHANGED <<ticks, puts, takes, delivered>>
    /\ UNCHANGED taskVars

\* ch.disconnect(chan)
FanDisconnect ==
    /\ \E c \in 1..MaxSubscribers :
         /\ ch' = fanoutDisconnect(ch, c)
         /\ ch' # ch
    /\ UNCHANGED <<ticks, puts, takes, delivered>>
    /\ UNCHANGED taskVars

\* ch.start()
FanStart ==
    /\ ~ch._started
    /\ LET r == fanoutStart(ch)
       IN /\ ch' = r.ch
          /\ ticks' = ticks \o Deferred(r.sent)
    /\ UNCHANGED <<puts, takes, delivered>>
    /\ UNCHANGED taskVars

\* The host runs the oldest thunk: it calls receive.
FanReceive ==
    /\ Len(ticks) > 0
    /\ Head(ticks).cb = FanReceiveCb
    /\ LET r == fanout_receive(ch, Head(ticks).value)
       IN /\ ch' = r.ch
          /\ ticks' = Tail(ticks) \o Deferred(r.sent)
          /\ delivered' = Append(delivered, Head(ticks))
    /\ UNCHANGED <<puts, takes>>
    /\ UNCHANGED taskVars

NextFanout == FanSourcePut \/ FanConnect \/ FanDisconnect \/ FanStart \/ FanReceive

SpecFanout == InitFanout /\ [][NextFanout]_allVars

(***************************************************************************)
(* Properties of fanout                                                    *)
(***************************************************************************)

\* The values receive has been called with, in the order of the calls.
FanReceived == [i \in 1..Len(delivered) |-> delivered[i].value]

MaxInterval == 2

\* Bound of the time that passes, in units of time.
MaxElapsed == 5

\* A debouncingPut that takes every put, dropped or not, as the reference time.
debouncingPut_movesReference(c, now, value, cb) ==
    IF now - c._lastPutTime >= c._debounceInterval_ms
    THEN ChannelPut([c EXCEPT !._lastPutTime = now], value, cb)
    ELSE [ch |-> [c EXCEPT !._lastPutTime = now], sent |-> sendValue(NullValue, cb)]

\* function debouncingPut(value, callback); now is Date.now()
debouncingPut(c, now, value, cb) ==
    IF now - c._lastPutTime >= c._debounceInterval_ms
    THEN ChannelPut([c EXCEPT !._lastPutTime = now], value, cb)
    ELSE [ch |-> c, sent |-> sendValue(NullValue, cb)]

\* (new Channel()).debounce(ms); Date.now() is no less than ms.
InitDebounce ==
    /\ \E ms \in 1..MaxInterval :
         ch = [_queue |-> << >>, _pending |-> << >>, filled |-> << >>,
               _debounceInterval_ms |-> ms, _lastPutTime |-> 0]
    /\ vars = [now |-> MaxInterval]
    /\ ticks = << >>
    /\ puts = << >>
    /\ takes = 0
    /\ delivered = << >>
    /\ phase = "idle"
    /\ code = << >>
    /\ sm = [id |-> 0]
    /\ arr = << >>
    /\ arguments = << >>
    /\ nextTicks = << >>
    /\ conts = {}
    /\ finals = << >>
    /\ escaped = << >>
    /\ stepsRun = 0
    /\ hist = << >>

\* ch.put(100 * k, cb), the k-th put.
DebouncePut ==
    /\ Len(puts) < MaxPuts
    /\ LET k == Len(puts) + 1
           r == debouncingPut(ch, vars.now, 100 * k, PutCb(k))
       IN /\ ch' = r.ch
          /\ ticks' = ticks \o Deferred(r.sent)
          /\ puts' = Append(puts, [val |-> 100 * k, at |-> vars.now])
    /\ UNCHANGED <<takes, delivered, vars>>
    /\ UNCHANGED closureFrame

\* ch.take(cb)
DebounceTake ==
    /\ takes < MaxTakes
    /\ LET r == ChannelTake(ch, TakeCb(takes + 1))
       IN /\ ch' = r.ch
          /\ ticks' = ticks \o Deferred(r.sent)
    /\ takes' = takes + 1
    /\ UNCHANGED <<puts, delivered, vars>>
    /\ UNCHANGED closureFrame

\* A unit of time passes.
DebounceTimePasses ==
    /\ vars.now < MaxInterval + MaxElapsed
    /\ vars' = [vars EXCEPT !.now = @ + 1]
    /\ UNCHANGED <<ch, ticks, puts, takes, delivered>>
    /\ UNCHANGED closureFrame

\* The host runs the oldest thunk: the callback of a put or of a take.
DebounceTick ==
    /\ Len(ticks) > 0
    /\ delivered' = Append(delivered, Head(ticks))
    /\ ticks' = Tail(ticks)
    /\ UNCHANGED <<ch, puts, takes, vars>>
    /\ UNCHANGED closureFrame

NextDebounce == DebouncePut \/ DebounceTake \/ DebounceTimePasses \/ DebounceTick

SpecDebounce == InitDebounce /\ [][NextDebounce]_allVars

(***************************************************************************)
(* Properties of debounce                                                  *)
(***************************************************************************)

\* The puts among the first i that are accepted when a put is accepted if and
\* only if at least ms have passed since the put accepted before it (the first
\* put is accepted): the sequence of their numbers.
RECURSIVE AcceptedPuts(_, _)
AcceptedPuts(i, ms) ==
    IF i = 0 THEN << >>
    ELSE LET before == AcceptedPuts(i - 1, ms)
         IN IF before = << >> \/ puts[i].at - puts[before[Len(before)]].at >= ms
            THEN Append(before, i)
            ELSE before

\* The values the channel has given or will give to its takes, in the order of
\* the takes: those signalled to the takes so far, then its queue.
ChannelValues ==
    LET n == Cardinality({ i \in 1..Len(Signals) : Signals[i].cb.who = "take" })
        given == [k \in 1..n |->
                    Signals[CHOOSE i \in 1..Len(Signals) : Signals[i].cb = TakeCb(k)].value]
    IN given \o QueuedValues(ch)

C36_LaterPutReplacesEarlier ==
    ( /\ ch._debounceInterval_ms = 2
      /\ Len(puts) = 3
      /\ puts[2].at = puts[1].at + 1
      /\ puts[3].at = puts[1].at + 5 )
    => \A i \in 1..Len(Signals) :
         /\ Signals[i].cb = TakeCb(1) => Signals[i].value = 200
         /\ Signals[i].cb = TakeCb(2) => Signals[i].value = 300

\* The puts of the test were made at 0, 50 and 250 ms, and two takes have
\* received 100 and 300: the put of 200 was dropped.
C36_Witness ==
    /\ ch._debounceInterval_ms = 2
    /\ Len(puts) = 3
    /\ puts[2].at = puts[1].at + 1
    /\ puts[3].at = puts[1].at + 5
    /\ takes = 2
    /\ \E i, j \in 1..Len(delivered) :
         /\ i < j
         /\ delivered[i].cb = TakeCb(1) /\ delivered[i].value = 100
         /\ delivered[j].cb = TakeCb(2) /\ delivered[j].value = 300
    /\ ch._queue = << >>

(***************************************************************************)
(* More properties of the channels with a buffering policy                 *)
(***************************************************************************)

\* C37: on a buffer(n) channel no continuation given to put is signalled more
\* than once, and once its value has been consumed it has been signalled.
C37_BufferedPutSignalledOnce ==
    ch.put = "bufferedPut"
    => \A k \in 1..Len(puts) :
         /\ Times(Signals, PutCb(k)) <= 1
         /\ (\A i \in 1..Len(ch._queue) : ch._queue[i]._value # k)
            => Times(Signals, PutCb(k)) = 1

\* buffer(1): the second put waited, was signalled when the first take made
\* room, and was signalled again when the second take consumed its value.
C37_Witness ==
    /\ ch.put = "bufferedPut"
    /\ ch._bufferLength = 1
    /\ puts = << 1, 2 >>
    /\ takes = 2
    /\ Times(delivered, PutCb(1)) = 1
    /\ Times(delivered, PutCb(2)) = 2

(***************************************************************************)
(* Part IX.  Continuations that are called late or a second time           *)
(***************************************************************************)

\* How many calls are made to continuations whose suspension is over.
MaxRepeats == 2

ThenToCb(id) == [who |-> "thenTo", k |-> id]

\* The outcomes an external operation reports to its continuation.
Completions == { <<NULL, "data">>, <<"ioerror", NULL>> }

\* The calls made so far to continuations that had been called before.
Repeats(s) == { i \in 1..Len(s) : s[i].via = "again" }

\* A continuation without a guard: every call of it transfers to its step.
continuation_done_unguarded(w, id, args) ==
    state_machine_fn([w EXCEPT !.sm.id = id], args)

\* The continuation made by thenTo(id), called after it has been called: the
\* suspension it was made for is over and the call is ignored.
continuation_done(w, id, args) == w

\* A task function whose body awaits an operation, about to be called.
InitLate ==
    /\ InitTask
    /\ \E i \in 1..Len(code) : code[i].op = "asyncget"

\* An external operation completes and calls its continuation, which it keeps.
CompletesFirst ==
    /\ \E id \in conts, result \in Completions :
         /\ \E w \in { continuation(World, id, result) } : Becomes(w)
         /\ delivered' = Append(delivered,
                                [cb |-> ThenToCb(id), err |-> result[1],
                                 value |-> result[2], via |-> "call"])
    /\ UNCHANGED <<phase, ch, ticks, puts, takes>>

\* An operation calls a continuation it has called before: a duplicate
\* completion, or the loser of a race completing after the task went on.
CompletesAgain ==
    /\ Cardinality(Repeats(delivered)) < MaxRepeats
    /\ \E i \in 1..Len(delivered), result \in Completions :
         /\ delivered[i].via = "call"
         /\ \E w \in { continuation_done(World, delivered[i].cb.k, result) } :
              Becomes(w)
         /\ delivered' = Append(delivered,
                                [cb |-> delivered[i].cb, err |-> result[1],
                                 value |-> result[2], via |-> "again"])
    /\ UNCHANGED <<phase, ch, ticks, puts, takes>>

NextLate == Invoke \/ RunStep \/ RunUnwind \/ CompletesFirst \/ CompletesAgain

SpecLate == InitLate /\ [][NextLate]_allVars

\* A step of the behaviour that is a repeated call of a continuation.
RepeatedCall ==
    /\ Len(delivered') = Len(delivered) + 1
    /\ delivered'[Len(delivered')].via = "again"

C38_RearmedWitness ==
    \E i \in Repeats(delivered) :
        /\ delivered[i].cb.k \in conts
        /\ \E j \in 1..(i - 1) : delivered[j].cb = delivered[i].cb

(***************************************************************************)
(* More properties of the base channel                                     *)
(***************************************************************************)

\* The callbacks of the signals in s.
CallbacksOf(s) == { s[i].cb : i \in 1..Len(s) }

\* Every take counted so far supplied a callback: the callback waits on the
\* channel, or its signal is on its way or was delivered.
EveryTakeHasCallback ==
    \A k \in 1..takes :
        \/ \E i \in 1..Len(ch._pending) : ch._pending[i] = TakeCb(k)
        \/ TakeCb(k) \in CallbacksOf(ticks)
        \/ TakeCb(k) \in CallbacksOf(delivered)

\* C39: on a base channel, after puts and takes that each supply a callback,
\* backlog() is the number of puts minus the number of takes made so far.
C39_BacklogIsPutsMinusTakes ==
    EveryTakeHasCallback => backlog(ch) = Len(puts) - takes

\* Readers outnumber the values put: the backlog is negative after puts and
\* takes that all supplied callbacks.
C39_Witness ==
    /\ EveryTakeHasCallback
    /\ Len(puts) >= 1
    /\ takes > Len(puts)
    /\ backlog(ch) < 0
    /\ \E i \in 1..Len(delivered) : delivered[i].cb = PutCb(1)

(***************************************************************************)
(* The eviction loop of expiringBuffer(n), for every n >= 0                *)
(***************************************************************************)

\* (new Channel()).expiringBuffer(N), N from 0.
InitExpire ==
    /\ \E N \in 0..MaxBufferLength :
         ch = Derived(Channel, N, "expiringPut", "prototype")
    /\ ticks = << >>
    /\ puts = << >>
    /\ takes = 0
    /\ delivered = << >>
    /\ phase = "idle"
    /\ code = << >>
    /\ sm = [id |-> 0]
    /\ vars = [c |-> TRUE]
    /\ arr = << >>
    /\ arguments = << >>
    /\ nextTicks = << >>
    /\ conts = {}
    /\ finals = << >>
    /\ escaped = << >>
    /\ stepsRun = 0
    /\ hist = << >>

\* ch.put(k, cb), the k-th put.  A put whose loop never ends keeps the only
\* thread of the host: nothing else runs after it.
ExpirePut ==
    /\ phase = "idle"
    /\ Len(puts) < MaxPuts
    /\ LET k == Len(puts) + 1
           r == expiringPut(ch, k, PutCb(k))
       IN /\ ch' = r.ch
          /\ ticks' = ticks \o Deferred(r.sent)
          /\ delivered' = delivered \o Called(r.sent)
          /\ puts' = Append(puts, k)
          /\ phase' = IF r.returns THEN "idle" ELSE "expiringPut"
    /\ UNCHANGED takes
    /\ UNCHANGED <<code, sm, vars, arr, arguments, nextTicks, conts, finals,
                   escaped, stepsRun, hist>>

\* ch.take(callback)
ExpireTake ==
    /\ phase = "idle"
    /\ takes < MaxTakes
    /\ LET r == ChannelTake(ch, TakeCb(takes + 1))
       IN /\ ch' = r.ch
          /\ ticks' = ticks \o Deferred(r.sent)
          /\ delivered' = delivered \o Called(r.sent)
    /\ takes' = takes + 1
    /\ UNCHANGED puts
    /\ UNCHANGED taskVars

\* The host runs the oldest nextTick thunk.
ExpireTick ==
    /\ phase = "idle"
    /\ Len(ticks) > 0
    /\ delivered' = Append(delivered, Head(ticks))
    /\ ticks' = Tail(ticks)
    /\ UNCHANGED <<ch, puts, takes>>
    /\ UNCHANGED taskVars

NextExpire == ExpirePut \/ ExpireTake \/ ExpireTick

SpecExpire == InitExpire /\ [][NextExpire]_allVars

\* C40: for every n >= 0 and every reachable state of the channel, a put on
\* an expiringBuffer(n) channel evicts finitely many values and returns, also
\* when n = 0 and when no value is queued.
C40_ExpiringPutReturns == phase # "expiringPut"

\* With room for at least one value every put returns, and it leaves at most
\* n values queued.
C40_ReturnsWhenRoomIsPositive ==
    ch._bufferLength >= 1 =>
        /\ phase = "idle"
        /\ Len(ch._queue) <= ch._bufferLength

\* A put on expiringBuffer(n), n >= 1, evicted the oldest value and returned.
C40_Witness ==
    /\ ch._bufferLength >= 1
    /\ phase = "idle"
    /\ Len(puts) > ch._bufferLength
    /\ takes = 0
    /\ Len(ch._queue) = ch._bufferLength

====
